---- MODULE Spec2Model ----
(***************************************************************************)
(* A model of the KubeUser controller (internal/controller/                *)
(* user_controller.go, the reconciler that starts at line 699): the User   *)
(* reconciler, the API objects it reads and writes, and the environment    *)
(* that acts between two reconcile passes (the external signer, the clock, *)
(* the operator who edits or deletes objects).                             *)
(* The validating webhook (internal/webhook/user_webhook.go) is modelled   *)
(* in the admission section.                                               *)
(*                                                                         *)
(* Conventions.                                                            *)
(*  - A Kubernetes name is a sequence of hyphen-free tokens, so that       *)
(*    fmt.Sprintf("%s-%s-rb", a, b) is a \o b \o <<"rb">>.                  *)
(*  - A byte payload is a tagged tuple: <<"der", cert>>, <<"pem", p>>,     *)
(*    <<"b64", p>>, <<"rsa", id>>, <<"csr", req>>; the empty payload is    *)
(*    <<>>.  Decoders succeed exactly on the tag they undo.                *)
(*  - Time is counted in units of 12 hours.                                *)
(*  - One Reconcile action is one whole pass of Reconcile; the reads of a  *)
(*    pass see the store as it is (the spec's "synchronous remote call"),  *)
(*    and the passes of one identity never overlap.                        *)
(***************************************************************************)
EXTENDS Integers, Sequences, FiniteSets, TLC

\* ------------------------------------------------------------ constants

kubeUserNamespace == <<"kubeuser">>
userFinalizer == "auth.openkube.io/finalizer"
PhaseError == "Error"
PhaseExpired == "Expired"
PhaseReady == "Ready"
PhaseActive == "Active"
PhasePending == "Pending"

\* 30 * 24h and 24h, in units of 12 hours
RotationThreshold == 60
ExpirySoon == 2

\* requeue directives of a pass
RequeueNone == "none"
RequeueCertError == "5s"
RequeueCert == "3s"
RequeueHourly == "1h"
RequeueRegular == "30m"

\* ------------------------------------------------------------ bounds

\* the clock stops at MaxTime
MaxTime == 2
\* the clock stops at MaxTimeFaults in the runs in which API calls fail
MaxTimeFaults == 1
\* validity periods the external signer may be configured with
ShortValidity == 1
LongValidity == 61
\* how many objects the operator creates or deletes behind the controller
MaxExternal == 1
\* how many times the operator edits the desired state
MaxEdits == 1
\* how many API calls of one run may fail for reasons outside the store
MaxFaults == 1
\* the calls of one pass that a failure may hit are the first MaxCalls
MaxCalls == 26

\* the certificates handed to the expiry extraction end at 0..MaxNotAfter and
\* hold one of the keys 0..MaxKey
MaxNotAfter == 3
MaxKey == 2

\* ------------------------------------------------------------ universe

Alice == <<"alice">>
Identities == {Alice}

Developer == <<"developer">>
Viewer == <<"viewer">>
Admin == <<"admin">>
View == <<"view">>

RoleSpec(ns, role) == [namespace |-> ns, existingRole |-> role]
DevDeveloper == RoleSpec(<<"dev">>, Developer)
DevViewer == RoleSpec(<<"dev">>, Viewer)
ProdDeveloper == RoleSpec(<<"prod">>, Developer)

\* the desired states the operator chooses from
DesiredStates ==
    {[roles |-> <<>>, clusterRoles |-> <<>>],
     [roles |-> <<DevDeveloper>>, clusterRoles |-> <<Admin>>],
     [roles |-> <<DevDeveloper, DevViewer>>, clusterRoles |-> <<View>>],
     [roles |-> <<DevViewer, ProdDeveloper>>, clusterRoles |-> <<>>]}
\* the desired state of the runs in which API calls fail
DesiredStatesFaults == {[roles |-> <<DevDeveloper>>, clusterRoles |-> <<Admin>>]}

\* the Roles and ClusterRoles that exist in every run, and the ones that
\* the operator may create and delete
StableRoles == {DevDeveloper, ProdDeveloper}
VolatileRoles == {DevViewer}
StableClusterRoles == {Admin}
VolatileClusterRoles == {View}

\* ------------------------------------------------------------ state

VARIABLES
    now,            \* the clock
    users,          \* User objects
    roles,          \* existing Roles, as RoleSpec records
    clusterRoles,   \* existing ClusterRoles, by name
    nss,            \* Namespace objects
    sas,            \* ServiceAccount objects of the kubeuser namespace
    secrets,        \* Secret objects of the kubeuser namespace
    csrs,           \* CertificateSigningRequest objects
    rbs,            \* RoleBinding objects
    crbs,           \* ClusterRoleBinding objects
    ca,             \* whether a cluster CA can be read
    signer,         \* the external signer's configuration
    faulty,         \* whether API calls may fail in this run
    budget,         \* what the operator may still do
    keySeq,         \* the next key rsa.GenerateKey draws
    cleanupStarted, \* identities whose cleanup has run
    last            \* the pass that has just run, if the last step was one
                    \* (and the identity whose rotation the operator has just forced)

vars == <<now, users, roles, clusterRoles, nss, sas, secrets, csrs, rbs, crbs,
          ca, signer, faulty, budget, keySeq, cleanupStarted, last>>

\* ------------------------------------------------------------ helpers

RECURSIVE Perms(_)
Perms(S) ==
    IF S = {} THEN {<<>>}
    ELSE UNION {{<<x>> \o p : p \in Perms(S \ {x})} : x \in S}

Range(s) == {s[i] : i \in 1..Len(s)}

RECURSIVE SelectSeq2(_, _)
\* the elements of sequence s that are in set S, in the order of s
SelectSeq2(s, S) ==
    IF s = <<>> THEN <<>>
    ELSE (IF Head(s) \in S THEN <<Head(s)>> ELSE <<>>) \o SelectSeq2(Tail(s), S)

Find(S, ns, name) == {o \in S : o.ns = ns /\ o.name = name}
TheOne(S) == CHOOSE o \in S : TRUE

NoErr == <<>>

\* ------------------------------------------------------------ payloads

IsTagged(b, tag) == Len(b) = 2 /\ b[1] = tag
B64(b) == <<"b64", b>>
Pem(b) == <<"pem", b>>
Der(cert) == <<"der", cert>>

\* encodings of one certificate the signer may hand back
Encode(fmt, cert) ==
    CASE fmt = "b64pem" -> B64(Pem(Der(cert)))
      [] fmt = "pem" -> Pem(Der(cert))
      [] OTHER -> Der(cert)

NoTime == [ok |-> FALSE, t |-> 0]

\* a parser that does not know the binary encoding
tryRawDERUnsupported(certData) == NoTime

tryRawDER(certData) ==
    IF IsTagged(certData, "der") THEN [ok |-> TRUE, t |-> certData[2].notAfter] ELSE NoTime

tryRawPEM(certData) ==
    IF IsTagged(certData, "pem") THEN tryRawDER(certData[2]) ELSE NoTime

tryBase64PEM(certData) ==
    IF IsTagged(certData, "b64") THEN tryRawPEM(certData[2]) ELSE NoTime

extractCertificateExpiryWithFormatDetection(certData) ==
    IF tryBase64PEM(certData).ok THEN tryBase64PEM(certData)
    ELSE IF tryRawPEM(certData).ok THEN tryRawPEM(certData)
    ELSE IF tryRawDER(certData).ok THEN tryRawDER(certData)
    ELSE NoTime

KeyPEM(id) == Pem(<<"rsa", id>>)

\* the request payload, or <<>> when the key does not decode
csrFromKey(username, keyPEM) ==
    IF IsTagged(keyPEM, "pem") /\ IsTagged(keyPEM[2], "rsa")
    THEN Pem(<<"csr", [subject |-> username, key |-> keyPEM[2][2]]>>)
    ELSE <<>>

\* a kubeconfig whose certificate and key entries are swapped
buildCertKubeconfigSwapped(apiServer, caDataB64, certDataB64, keyDataB64, username) ==
    << <<"certificate-authority-data", caDataB64>>,
       <<"server", apiServer>>,
       <<"user", username>>,
       <<"client-certificate-data", keyDataB64>>,
       <<"client-key-data", certDataB64>> >>

buildCertKubeconfig(apiServer, caDataB64, certDataB64, keyDataB64, username) ==
    << <<"certificate-authority-data", caDataB64>>,
       <<"server", apiServer>>,
       <<"user", username>>,
       <<"name", username \o <<"@cluster">> >>,
       <<"current-context", username \o <<"@cluster">> >>,
       <<"name", username>>,
       <<"client-certificate-data", certDataB64>>,
       <<"client-key-data", keyDataB64>> >>

\* the value of the first client-certificate-data line, or <<>>
extractClientCertFromKubeconfig(kubeconfigData) ==
    LET hits == {i \in 1..Len(kubeconfigData) : kubeconfigData[i][1] = "client-certificate-data"}
    IN  IF hits = {} THEN <<>>
        ELSE kubeconfigData[CHOOSE i \in hits : \A j \in hits : i <= j][2]

\* ------------------------------------------------------------ the API

(***************************************************************************)
(* A pass threads a machine m through its API calls: the store as the pass *)
(* has changed it so far, the pass's copy of the User (m.user), the number *)
(* of API calls made (m.n), the calls that fail for reasons outside the    *)
(* store (m.faults, by call number) and the write calls made (m.log).      *)
(* Every call returns [m |-> the machine after it, err |-> "" or why not]. *)
(***************************************************************************)

Injected(m) == (m.n + 1) \in m.faults
Called(m) == [m EXCEPT !.n = @ + 1]
Logged(m, verb, kind, ns, name, e) ==
    [m EXCEPT !.log = Append(@, [verb |-> verb, kind |-> kind, ns |-> ns, name |-> name, err |-> e])]

Get(m, kind, ns, name) ==
    [m |-> Called(m),
     err |-> IF Injected(m) THEN "Fault"
             ELSE IF Find(m[kind], ns, name) = {} THEN "NotFound" ELSE ""]

\* the objects a label selector matches; the order of the items is the pass's
List(m, kind, username) ==
    [m |-> Called(m),
     err |-> IF Injected(m) THEN "Fault" ELSE "",
     items |-> IF Injected(m) THEN {} ELSE {o \in m[kind] : o.label = username}]

Create(m, kind, obj) ==
    LET e == IF Injected(m) THEN "Fault"
             ELSE IF Find(m[kind], obj.ns, obj.name) # {} THEN "AlreadyExists" ELSE ""
        m1 == Logged(Called(m), "create", kind, obj.ns, obj.name, e)
    IN  [m |-> IF e = "" THEN [m1 EXCEPT ![kind] = @ \cup {obj}] ELSE m1, err |-> e]

\* obj carries the resourceVersion of the object (readNs, readName) the pass read;
\* the API server refuses a changed roleRef
Update(m, kind, obj, readNs, readName) ==
    LET old == Find(m[kind], obj.ns, obj.name)
        e == IF Injected(m) THEN "Fault"
             ELSE IF old = {} THEN "NotFound"
             ELSE IF <<readNs, readName>> # <<obj.ns, obj.name>> THEN "Conflict"
             ELSE IF kind \in {"rbs", "crbs"} /\ TheOne(old).roleRef # obj.roleRef THEN "Invalid"
             ELSE ""
        m1 == Logged(Called(m), "update", kind, obj.ns, obj.name, e)
    IN  [m |-> IF e = "" THEN [m1 EXCEPT ![kind] = (@ \ old) \cup {obj}] ELSE m1, err |-> e]

Delete(m, kind, ns, name) ==
    LET old == Find(m[kind], ns, name)
        e == IF Injected(m) THEN "Fault" ELSE IF old = {} THEN "NotFound" ELSE ""
        m1 == Logged(Called(m), "delete", kind, ns, name, e)
    IN  [m |-> IF e = "" THEN [m1 EXCEPT ![kind] = @ \ old] ELSE m1, err |-> e]

\* r.Status().Update(ctx, &user): only the status is written
StatusUpdate(m) ==
    LET old == Find(m.users, m.user.ns, m.user.name)
        e == IF Injected(m) THEN "Fault" ELSE IF old = {} THEN "NotFound" ELSE ""
        m1 == Logged(Called(m), "status", "users", m.user.ns, m.user.name, e)
        new == [TheOne(old) EXCEPT !.status = m.user.status]
    IN  [m |-> IF e = "" THEN [m1 EXCEPT !.users = (@ \ old) \cup {new}, !.user = new] ELSE m1,
         err |-> e]

\* r.Update(ctx, &user): the status is not written; an object that is being
\* deleted and has no finalizer left is removed from the store
UserUpdate(m) ==
    LET old == Find(m.users, m.user.ns, m.user.name)
        e == IF Injected(m) THEN "Fault" ELSE IF old = {} THEN "NotFound" ELSE ""
        m1 == Logged(Called(m), "update", "users", m.user.ns, m.user.name, e)
        new == [TheOne(old) EXCEPT !.finalizers = m.user.finalizers, !.spec = m.user.spec]
        kept == IF new.deleting /\ new.finalizers = {} THEN {} ELSE {new}
    IN  [m |-> IF e = "" THEN [m1 EXCEPT !.users = (@ \ old) \cup kept, !.user = new] ELSE m1,
         err |-> e]

\* r.SubResource("approval").Update(ctx, &csr)
Approve(m, csr) ==
    LET old == Find(m.csrs, csr.ns, csr.name)
        e == IF Injected(m) THEN "Fault" ELSE IF old = {} THEN "NotFound" ELSE ""
        m1 == Logged(Called(m), "approve", "csrs", csr.ns, csr.name, e)
        new == [TheOne(old) EXCEPT !.approved = TRUE]
    IN  [m |-> IF e = "" THEN [m1 EXCEPT !.csrs = (@ \ old) \cup {new}] ELSE m1, err |-> e]

containsString(slice, s) == s \in slice
removeString(slice, s) == slice \ {s}

\* ------------------------------------------------------------ bindings

(***************************************************************************)
(* A RoleBinding or ClusterRoleBinding (ns is <<>> for the latter):        *)
(*   [ns, name, label, owner, roleRef |-> [kind, name], subjects]          *)
(* label is the value of auth.openkube.io/user, owner the User named by    *)
(* the owner reference.  A binding's key is (namespace, roleRef name).     *)
(***************************************************************************)

Subject(username) == [kind |-> "User", name |-> username]

Binding(ns, name, username, refKind, role) ==
    [ns |-> ns, name |-> name, label |-> username, owner |-> username,
     roleRef |-> [kind |-> refKind, name |-> role],
     subjects |-> <<Subject(username)>>]

rbName(username, role) == username \o role \o <<"rb">>
crbName(username, clusterRole) == username \o clusterRole \o <<"crb">>

desiredRB(username, roleSpec) ==
    Binding(roleSpec.namespace, rbName(username, roleSpec.existingRole), username,
            "Role", roleSpec.existingRole)

desiredCRB(username, roleSpec) ==
    Binding(<<>>, crbName(username, roleSpec.existingRole), username,
            "ClusterRole", roleSpec.existingRole)

KeyOf(binding) == RoleSpec(binding.ns, binding.roleRef.name)

\* an update test that also compares the owner reference
roleBindingMatchesOwner(existing, desired) ==
    /\ existing.roleRef = desired.roleRef
    /\ existing.owner = desired.owner
    /\ Len(existing.subjects) = 1
    /\ Len(desired.subjects) = 1
    /\ existing.subjects[1].kind = desired.subjects[1].kind
    /\ existing.subjects[1].name = desired.subjects[1].name

roleBindingMatches(existing, desired) ==
    /\ existing.roleRef = desired.roleRef
    /\ Len(existing.subjects) = 1
    /\ Len(desired.subjects) = 1
    /\ existing.subjects[1].kind = desired.subjects[1].kind
    /\ existing.subjects[1].name = desired.subjects[1].name

clusterRoleBindingMatches(existing, desired) == roleBindingMatches(existing, desired)

\* existingRBMap[key]: a later item of the list overwrites an earlier one
MapEntry(listed, key) ==
    listed[CHOOSE i \in 1..Len(listed) :
              /\ KeyOf(listed[i]) = key
              /\ \A j \in 1..Len(listed) : KeyOf(listed[j]) = key => j <= i]

MapKeys(listed) == {KeyOf(listed[i]) : i \in 1..Len(listed)}

\* r.Get of a Role, or of a ClusterRole when the namespace is empty
GetRole(m, roleSpec) ==
    [m |-> Called(m),
     err |-> IF Injected(m) THEN "Fault"
             ELSE IF roleSpec.namespace = <<>>
                  THEN (IF roleSpec.existingRole \in clusterRoles THEN "" ELSE "NotFound")
                  ELSE (IF roleSpec \in roles THEN "" ELSE "NotFound")]

RoleError(roleSpec, e) ==
    IF roleSpec.namespace = <<>>
    THEN IF e = "NotFound" THEN <<"clusterrole", roleSpec.existingRole, "not found">>
         ELSE <<"failed to get clusterrole", roleSpec.existingRole, e>>
    ELSE IF e = "NotFound"
         THEN <<"role", roleSpec.existingRole, "not found in namespace", roleSpec.namespace>>
         ELSE <<"failed to get role", roleSpec.existingRole, "in namespace", roleSpec.namespace, e>>

\* the result of a step that cannot fail
Ok(m) == [m |-> m, err |-> NoErr]

RECURSIVE validateRoles(_, _)
\* the first loop after the lookup g of the first reference of wanted
validateGot(g, wanted) ==
    IF g.err # "" THEN [m |-> g.m, err |-> RoleError(Head(wanted), g.err)]
    ELSE validateRoles(g.m, Tail(wanted))

\* a reconciler that does not look the desired references up
validateRolesSkipped(m, wanted) == Ok(m)

\* the first loop: every desired reference is looked up, in the order of the spec
validateRoles(m, wanted) ==
    IF wanted = <<>> THEN Ok(m) ELSE validateGot(GetRole(m, Head(wanted)), wanted)

\* the outcome of the Update or Create of the binding named name
Applied(w, what, kind, name) ==
    IF w.err # "" THEN [m |-> w.m, err |-> <<what, kind, name, w.err>>] ELSE Ok(w.m)

\* one round of the second loop: the binding of a desired key is left alone,
\* updated under the version of the existing one, or created
applyOne(m, kind, username, key, listed) ==
    LET want == IF kind = "rbs" THEN desiredRB(username, key) ELSE desiredCRB(username, key)
        existing == MapEntry(listed, key)
        matches == IF kind = "rbs" THEN roleBindingMatches(existing, want)
                   ELSE clusterRoleBindingMatches(existing, want)
    IN  IF key \in MapKeys(listed)
        THEN IF matches THEN Ok(m)
             ELSE Applied(Update(m, kind, want, existing.ns, existing.name),
                          "failed to update", kind, want.name)
        ELSE Applied(Create(m, kind, want), "failed to create", kind, want.name)

RECURSIVE applyDesired(_, _, _, _, _)
applyNext(one, kind, username, ord, listed) ==
    IF one.err # NoErr THEN one
    ELSE applyDesired(one.m, kind, username, Tail(ord), listed)

\* the second loop, over the desired map in the order ord
applyDesired(m, kind, username, ord, listed) ==
    IF ord = <<>> THEN Ok(m)
    ELSE applyNext(applyOne(m, kind, username, Head(ord), listed), kind, username, ord, listed)

RECURSIVE deleteOutdated(_, _, _)
deleteNext(d, kind, left) ==
    IF d.err # "" /\ d.err # "NotFound"
    THEN [m |-> d.m, err |-> <<"failed to delete outdated", kind, Head(left).name, d.err>>]
    ELSE deleteOutdated(d.m, kind, Tail(left))

\* the third loop, over what is left of the existing map
deleteOutdated(m, kind, left) ==
    IF left = <<>> THEN Ok(m)
    ELSE deleteNext(Delete(m, kind, Head(left).ns, Head(left).name), kind, left)

\* the entries of the existing map whose key is not desired, in list order
Outdated(listed, wantedKeys) ==
    LET idx == {i \in 1..Len(listed) :
                   /\ KeyOf(listed[i]) \notin wantedKeys
                   /\ listed[i] = MapEntry(listed, KeyOf(listed[i]))}
    IN  SelectSeq2(listed, {listed[i] : i \in idx})

\* after the second loop
bindingsApplied(a, kind, wanted, listed) ==
    IF a.err # NoErr THEN a ELSE deleteOutdated(a.m, kind, Outdated(listed, Range(wanted)))

\* after the first loop
bindingsValidated(v, kind, username, wanted, listed, ord) ==
    IF v.err # NoErr THEN v
    ELSE bindingsApplied(applyDesired(v.m, kind, username, SelectSeq2(ord, Range(wanted)), listed),
                         kind, wanted, listed)

\* after the list call
bindingsListed(l, kind, username, wanted, order, ord) ==
    IF l.err # "" THEN [m |-> l.m, err |-> <<"failed to list existing", kind, l.err>>]
    ELSE bindingsValidated(validateRoles(l.m, wanted), kind, username, wanted,
                           SelectSeq2(order, l.items), ord)

\* wanted: the desired references in spec order; order: the list order of the
\* items; ord: the iteration order of the desired map
reconcileBindings(m, kind, wanted, order, ord) ==
    bindingsListed(List(m, kind, m.user.name), kind, m.user.name, wanted, order, ord)

ClusterRoleKeys(clusterRoleList) ==
    [i \in 1..Len(clusterRoleList) |-> RoleSpec(<<>>, clusterRoleList[i])]

reconcileRoleBindings(m, order, ord) ==
    reconcileBindings(m, "rbs", m.user.spec.roles, order, ord)

reconcileClusterRoleBindings(m, order, ord) ==
    reconcileBindings(m, "crbs", ClusterRoleKeys(m.user.spec.clusterRoles), order, ord)

\* ------------------------------------------------------------ credentials

(***************************************************************************)
(* Secret: [ns, name, data |-> [keypem, config]] (an absent entry is <<>>) *)
(* CSR:    [ns, name, label, request, approved, certificate]               *)
(***************************************************************************)

keySecretName(username) == username \o <<"key">>
cfgSecretName(username) == username \o <<"kubeconfig">>
\* a reconciler that names each signing request after the time of the pass
csrNameByTime(username) == username \o <<"csr", now>>

csrName(username) == username \o <<"csr">>

Secret(name, keyPEM, config) ==
    [ns |-> kubeUserNamespace, name |-> name, data |-> [keypem |-> keyPEM, config |-> config]]

SecretOf(m, name) == TheOne(Find(m.secrets, kubeUserNamespace, name))
CsrOf(m, name) == TheOne(Find(m.csrs, <<>>, name))

createOrUpdateGot(g, kind, obj) ==
    IF g.err = "NotFound" THEN Create(g.m, kind, obj)
    ELSE IF g.err # "" THEN g
    ELSE Update(g.m, kind, obj, obj.ns, obj.name)

createOrUpdate(m, kind, obj) == createOrUpdateGot(Get(m, kind, obj.ns, obj.name), kind, obj)

\* [m, needs, err]: whether the kubeconfig's certificate is within the threshold
checkCertificateRotation(m, cfgName, rotationThreshold) ==
    LET g == Get(m, "secrets", kubeUserNamespace, cfgName)
        kubeconfigData == SecretOf(m, cfgName).data.config
        certData == extractClientCertFromKubeconfig(kubeconfigData)
        certExpiry == extractCertificateExpiryWithFormatDetection(certData)
    IN  IF g.err = "NotFound" THEN [m |-> g.m, needs |-> FALSE, err |-> NoErr]
        ELSE IF g.err # "" THEN [m |-> g.m, needs |-> FALSE, err |-> <<g.err>>]
        ELSE IF kubeconfigData = <<>> THEN [m |-> g.m, needs |-> FALSE, err |-> NoErr]
        ELSE IF certData = <<>>
             THEN [m |-> g.m, needs |-> FALSE,
                   err |-> <<"failed to extract certificate from kubeconfig">>]
        ELSE IF ~certExpiry.ok
             THEN [m |-> g.m, needs |-> FALSE, err |-> <<"failed to extract certificate expiry">>]
        ELSE [m |-> g.m, needs |-> certExpiry.t - now < rotationThreshold, err |-> NoErr]

Deleted(d, what) ==
    IF d.err # "" /\ d.err # "NotFound" THEN [m |-> d.m, err |-> <<what, d.err>>] ELSE Ok(d.m)

GotThenDelete(g, kind, ns, name, what) ==
    IF g.err # "" THEN Ok(g.m) ELSE Deleted(Delete(g.m, kind, ns, name), what)

\* Get then Delete; a failed Get skips the delete, a NotFound on delete is fine
GetAndDelete(m, kind, ns, name, what) ==
    GotThenDelete(Get(m, kind, ns, name), kind, ns, name, what)

cleanupCSR(a, csrN) ==
    IF a.err # NoErr THEN a
    ELSE GetAndDelete(a.m, "csrs", <<>>, csrN, "failed to delete existing CSR")

\* a rotation that also removes the private key
cleanupCertificateResourcesAndKey(m, cfgName, csrN) ==
    cleanupCSR(GetAndDelete(Delete(m, "secrets", kubeUserNamespace,
                                   keySecretName(m.user.name)).m,
                            "secrets", kubeUserNamespace, cfgName,
                            "failed to delete kubeconfig secret"), csrN)

cleanupCertificateResources(m, cfgName, csrN) ==
    cleanupCSR(GetAndDelete(m, "secrets", kubeUserNamespace, cfgName,
                            "failed to delete kubeconfig secret"), csrN)

\* [m, data, err]: the base64 of the CA, from the mounted file or the ConfigMap
getClusterCABase64(m) ==
    IF ca = "file" THEN [m |-> m, data |-> B64(<<"ca", "file">>), err |-> NoErr]
    ELSE IF ca = "configmap" /\ ~Injected(m)
         THEN [m |-> Called(m), data |-> B64(<<"ca", "configmap">>), err |-> NoErr]
    ELSE [m |-> Called(m), data |-> <<>>, err |-> <<"CA not found">>]

apiServer == "https://kubernetes.default.svc"

Ret(m, requeue, err) == [m |-> m, requeue |-> requeue, err |-> err]

\* step 10: the kubeconfig secret is created or updated
kubeconfigWritten(w) == Ret(w.m, FALSE, IF w.err = "" THEN NoErr ELSE <<w.err>>)

\* after the status update of step 9
\* a publish step that does not look at the outcome of the status update
expiryPersistedUnchecked(s, cfgSecret) ==
    kubeconfigWritten(createOrUpdate(s.m, "secrets", cfgSecret))

expiryPersisted(s, cfgSecret) ==
    IF s.err # ""
    THEN Ret(s.m, FALSE, <<"failed to update user status with certificate expiry", s.err>>)
    ELSE kubeconfigWritten(createOrUpdate(s.m, "secrets", cfgSecret))

\* steps 8 and 9, with the CA c of step 7
publishWithCA(c, username, keyPEM, signedCert) ==
    LET kcfg == buildCertKubeconfig(apiServer, c.data, B64(signedCert), B64(keyPEM), username)
        certExpiryTime == extractCertificateExpiryWithFormatDetection(signedCert)
    IN  IF c.err # NoErr THEN Ret(c.m, FALSE, c.err)
        ELSE IF ~certExpiryTime.ok
             THEN Ret(c.m, FALSE, <<"failed to extract certificate expiry">>)
        ELSE expiryPersisted(
                 StatusUpdate([c.m EXCEPT !.user.status.expiryTime = <<certExpiryTime.t>>,
                                          !.user.status.certificateExpiry = "Certificate"]),
                 Secret(cfgSecretName(username), <<>>, kcfg))

\* steps 7 to 10: the CA, the kubeconfig, the expiry in the status, the secret
publishKubeconfig(m, username, keyPEM, signedCert) ==
    publishWithCA(getClusterCABase64(m), username, keyPEM, signedCert)

\* a successful Create or approval ends the pass with a requeue
Requeued(w) == IF w.err # "" THEN Ret(w.m, FALSE, <<w.err>>) ELSE Ret(w.m, TRUE, NoErr)

NewCSR(username, csrPEM) ==
    [ns |-> <<>>, name |-> csrName(username), label |-> username,
     request |-> csrPEM, approved |-> FALSE, certificate |-> <<>>]

\* a credential step that leaves the approval of its request to somebody else
requestGotUnapproved(g, username, keyPEM, csrPEM) ==
    IF g.err = "NotFound" THEN Requeued(Create(g.m, "csrs", NewCSR(username, csrPEM)))
    ELSE IF g.err # "" THEN Ret(g.m, FALSE, <<g.err>>)
    ELSE IF CsrOf(g.m, csrName(username)).certificate = <<>> THEN Ret(g.m, TRUE, NoErr)
    ELSE publishKubeconfig(g.m, username, keyPEM, CsrOf(g.m, csrName(username)).certificate)

\* a credential step that approves the request it has just submitted
requestGotEager(g, username, keyPEM, csrPEM) ==
    IF g.err = "NotFound"
    THEN Requeued(Approve(Create(g.m, "csrs", NewCSR(username, csrPEM)).m,
                          NewCSR(username, csrPEM)))
    ELSE IF g.err # "" THEN Ret(g.m, FALSE, <<g.err>>)
    ELSE IF ~CsrOf(g.m, csrName(username)).approved
         THEN Requeued(Approve(g.m, CsrOf(g.m, csrName(username))))
    ELSE IF CsrOf(g.m, csrName(username)).certificate = <<>> THEN Ret(g.m, TRUE, NoErr)
    ELSE publishKubeconfig(g.m, username, keyPEM, CsrOf(g.m, csrName(username)).certificate)

\* steps 4 to 6 after the Get of the request: submit, approve, wait
requestGot(g, username, keyPEM, csrPEM) ==
    IF g.err = "NotFound" THEN Requeued(Create(g.m, "csrs", NewCSR(username, csrPEM)))
    ELSE IF g.err # "" THEN Ret(g.m, FALSE, <<g.err>>)
    ELSE IF ~CsrOf(g.m, csrName(username)).approved
         THEN Requeued(Approve(g.m, CsrOf(g.m, csrName(username))))
    ELSE IF CsrOf(g.m, csrName(username)).certificate = <<>> THEN Ret(g.m, TRUE, NoErr)
    ELSE publishKubeconfig(g.m, username, keyPEM, CsrOf(g.m, csrName(username)).certificate)

requestCertificate(m, username, keyPEM, csrPEM) ==
    requestGot(Get(m, "csrs", <<>>, csrName(username)), username, keyPEM, csrPEM)

\* steps 2 and 3 after the Get of the kubeconfig secret
kubeconfigGot(g, username, keyPEM) ==
    IF g.err = "" THEN Ret(g.m, FALSE, NoErr)
    ELSE IF csrFromKey(username, keyPEM) = <<>> THEN Ret(g.m, FALSE, <<"decode key failed">>)
    ELSE requestCertificate(g.m, username, keyPEM, csrFromKey(username, keyPEM))

\* steps 2 and 3: the short-circuit, then the request derived from the key
afterKey(k, username) ==
    IF k.err # NoErr THEN Ret(k.m, FALSE, k.err)
    ELSE kubeconfigGot(Get(k.m, "secrets", kubeUserNamespace, cfgSecretName(username)),
                       username, k.key)

keyCreated(c, keyPEM) ==
    [m |-> c.m, key |-> keyPEM, err |-> IF c.err # "" THEN <<c.err>> ELSE NoErr]

\* [m, key, err] after the Get of the key secret
keyGot(g, username) ==
    IF g.err = "NotFound"
    THEN keyCreated(Create([g.m EXCEPT !.keySeq = @ + 1], "secrets",
                           Secret(keySecretName(username), KeyPEM(g.m.keySeq), <<>>)),
                    KeyPEM(g.m.keySeq))
    ELSE IF g.err # "" THEN [m |-> g.m, key |-> <<>>, err |-> <<g.err>>]
    ELSE [m |-> g.m, key |-> SecretOf(g.m, keySecretName(username)).data.keypem, err |-> NoErr]

\* step 1: load the key secret, or generate a key and create it
loadOrCreateKey(m, username) ==
    afterKey(keyGot(Get(m, "secrets", kubeUserNamespace, keySecretName(username)), username),
             username)

rotationCleaned(c, username) ==
    IF c.err # NoErr
    THEN Ret(c.m, FALSE, <<"failed to cleanup certificate resources", c.err>>)
    ELSE loadOrCreateKey(c.m, username)

rotationChecked(r, username) ==
    IF r.err # NoErr THEN Ret(r.m, FALSE, <<"failed to check certificate rotation", r.err>>)
    ELSE rotationCleaned(
             IF r.needs
             THEN cleanupCertificateResources(r.m, cfgSecretName(username), csrName(username))
             ELSE Ok(r.m),
             username)

ensureCertKubeconfig(m) ==
    rotationChecked(checkCertificateRotation(m, cfgSecretName(m.user.name), RotationThreshold),
                    m.user.name)

\* ------------------------------------------------------------ status

(***************************************************************************)
(* User: [ns, name, deleting, finalizers, spec |-> [roles, clusterRoles],  *)
(*        status |-> [phase, message, expiryTime, certificateExpiry,       *)
(*                    conditions]]                                         *)
(* expiryTime is <<>> when unset and <<t>> for the RFC3339 text of time t. *)
(***************************************************************************)

\* an Active projection that only applies to a phase other than Error
setActiveStatusUnlessError(user) ==
    IF user.status.phase = PhaseError THEN user
    ELSE [user EXCEPT !.status.phase = PhaseActive,
                      !.status.message = <<"User provisioned">>]

setActiveStatus(user) ==
    LET roleCount == Len(user.spec.roles)
        clusterRoleCount == Len(user.spec.clusterRoles)
        message ==
            IF roleCount + clusterRoleCount = 0 THEN <<"User has no assigned roles">>
            ELSE IF roleCount > 0 /\ clusterRoleCount > 0
                 THEN <<"User provisioned with", roleCount, "namespace role(s) and",
                        clusterRoleCount, "cluster role(s)">>
            ELSE IF roleCount > 0
                 THEN <<"User provisioned with", roleCount, "namespace role(s)">>
            ELSE <<"User provisioned with", clusterRoleCount, "cluster role(s)">>
    IN  [user EXCEPT !.status.phase = PhaseActive, !.status.message = message]

\* a projection that leaves phase Error alone
projectPhaseSticky(user) ==
    IF user.status.phase = PhaseError THEN user
    ELSE IF user.status.expiryTime # <<>> /\ now > user.status.expiryTime[1]
    THEN [user EXCEPT !.status.phase = PhaseExpired,
                      !.status.message = <<"User certificate has expired">>]
    ELSE setActiveStatus(user)

\* the phase and message updateUserStatus computes from the expiry
projectPhase(user) ==
    IF user.status.expiryTime # <<>> /\ now > user.status.expiryTime[1]
    THEN [user EXCEPT !.status.phase = PhaseExpired,
                      !.status.message = <<"User certificate has expired">>]
    ELSE setActiveStatus(user)

\* the Ready condition updateUserStatus writes for a phase and message
readyCondition(phase, message) ==
    [type |-> PhaseReady,
     status |-> IF phase \in {PhaseError, PhaseExpired, PhasePending} THEN "False" ELSE "True",
     reason |-> CASE phase = PhaseError -> "ProvisioningFailed"
                  [] phase = PhaseExpired -> "CertificateExpired"
                  [] phase = PhasePending -> "Provisioning"
                  [] OTHER -> "UserProvisioned",
     message |-> message,
     lastTransitionTime |-> now]

\* every condition of the type is overwritten; one is appended if there is none
updateConditions(conditions, new) ==
    LET updated == [i \in 1..Len(conditions) |->
                       IF conditions[i].type = new.type THEN new ELSE conditions[i]]
    IN  IF \E i \in 1..Len(conditions) : conditions[i].type = new.type
        THEN updated ELSE Append(updated, new)

updateUserStatus(m) ==
    LET u1 == projectPhase(m.user)
        cond == readyCondition(u1.status.phase, u1.status.message)
        u2 == [u1 EXCEPT !.status.conditions = updateConditions(@, cond)]
    IN  StatusUpdate([m EXCEPT !.user = u2])

\* ------------------------------------------------------------ cleanup

RECURSIVE deleteEach(_, _, _)
\* _ = r.Delete(ctx, &item) for every item
deleteEach(m, kind, items) ==
    IF items = <<>> THEN m
    ELSE deleteEach(Delete(m, kind, Head(items).ns, Head(items).name).m, kind, Tail(items))

deleteItems(l, kind, order) ==
    IF l.err # "" THEN l.m ELSE deleteEach(l.m, kind, SelectSeq2(order, l.items))

deleteListed(m, kind, order) == deleteItems(List(m, kind, m.user.name), kind, order)

\* a cleanup that removes the ServiceAccount, the request and every secret
\* whose name begins with the name of the identity
deleteNamedByPrefix(m, username) ==
    [Delete(Delete(m, "sas", kubeUserNamespace, username).m, "csrs", <<>>, csrName(username)).m
        EXCEPT !.secrets = {o \in @ : SubSeq(o.name, 1, Len(username)) # username}]

\* the four deletes by name
deleteNamed(m, username) ==
    Delete(Delete(Delete(Delete(m, "sas", kubeUserNamespace, username).m,
                         "secrets", kubeUserNamespace, keySecretName(username)).m,
                  "secrets", kubeUserNamespace, cfgSecretName(username)).m,
           "csrs", <<>>, csrName(username)).m

\* a cleanup that forgets the cluster-scoped bindings
cleanupUserResourcesNamespaced(m) ==
    [deleteListed(deleteNamed(m, m.user.name), "rbs", m.in.order) EXCEPT !.cleanup = TRUE]

cleanupUserResources(m) ==
    [deleteListed(deleteListed(deleteNamed(m, m.user.name), "rbs", m.in.order),
                  "crbs", m.in.corder)
        EXCEPT !.cleanup = TRUE]

\* ------------------------------------------------------------ Reconcile

(***************************************************************************)
(* The blocks of Reconcile, last block first: each takes the machine as    *)
(* the blocks before it left it, and ends the pass or enters the next one. *)
(* A pass ends with [m, requeue, err]: the ctrl.Result and the error.      *)
(***************************************************************************)

Done(m, requeue, err) == [m |-> m, requeue |-> requeue, err |-> err]

\* lines 829-855: the requeue computed from the observed expiry
expiryRequeue(m) ==
    LET st == m.user.status
        timeUntilExpiry == st.expiryTime[1] - now
        expired == [m EXCEPT !.user.status.phase = PhaseExpired,
                             !.user.status.message = <<"User access has expired">>]
    IN  IF st.phase = PhaseActive /\ st.expiryTime # <<>> /\ timeUntilExpiry <= 0
        THEN Done(StatusUpdate(expired).m, RequeueNone, NoErr)
        ELSE IF st.phase = PhaseActive /\ st.expiryTime # <<>> /\ timeUntilExpiry < ExpirySoon
        THEN Done(m, RequeueHourly, NoErr)
        ELSE Done(m, RequeueRegular, NoErr)

\* lines 814-827
certResult(r) ==
    IF r.err # NoErr THEN Done(r.m, RequeueCertError, NoErr)
    ELSE IF r.requeue THEN Done(r.m, RequeueCert, NoErr)
    ELSE expiryRequeue(r.m)

certStage(m) == certResult(ensureCertKubeconfig(m))

\* a pass that goes to the credential step without projecting the status
statusStageSkipped(m) == certStage(m)

\* lines 805-812: the error of updateUserStatus is logged and dropped
statusStage(m) == certStage(updateUserStatus(m).m)

\* a reconciler that returns the binding error without recording it
BindingFailureUnrecorded(m, what, err) == Done(m, RequeueNone, err)

BindingFailure(m, what, err) ==
    Done(StatusUpdate([m EXCEPT !.user.status.phase = PhaseError,
                                !.user.status.message = <<what, err>>]).m,
         RequeueNone, err)

\* lines 794-803
crbResult(r) ==
    IF r.err # NoErr
    THEN BindingFailure(r.m, "Failed to reconcile ClusterRoleBindings", r.err)
    ELSE statusStage(r.m)

crbStage(m) == crbResult(reconcileClusterRoleBindings(m, m.in.corder, m.in.cord))

\* lines 783-792
rbResult(r) ==
    IF r.err # NoErr
    THEN BindingFailure(r.m, "Failed to reconcile RoleBindings", r.err)
    ELSE crbStage(r.m)

rbStage(m) == rbResult(reconcileRoleBindings(m, m.in.order, m.in.ord))

ServiceAccount(username) == [ns |-> kubeUserNamespace, name |-> username, label |-> username]

\* lines 768-781
saResult(r) == IF r.err # "" THEN Done(r.m, RequeueNone, <<r.err>>) ELSE rbStage(r.m)

saStage(m) == saResult(createOrUpdate(m, "sas", ServiceAccount(m.user.name)))

namespaceGot(g, name) ==
    IF g.err = "NotFound" THEN Create(g.m, "nss", [ns |-> <<>>, name |-> name]) ELSE g

ensureNamespace(m, name) == namespaceGot(Get(m, "nss", <<>>, name), name)

\* lines 760-766
nsResult(r) == IF r.err # "" THEN Done(r.m, RequeueNone, <<r.err>>) ELSE saStage(r.m)

nsStage(m) == nsResult(ensureNamespace(m, kubeUserNamespace))

\* a pass that goes on after a failed finalizer update
finalizerResultIgnored(u) == nsStage(u.m)

\* lines 746-758
finalizerResult(u) == IF u.err # "" THEN Done(u.m, RequeueNone, <<u.err>>) ELSE nsStage(u.m)

finalizerStage(m) ==
    finalizerResult(
        IF containsString(m.user.finalizers, userFinalizer) THEN [m |-> m, err |-> ""]
        ELSE UserUpdate([m EXCEPT !.user.finalizers = @ \cup {userFinalizer}]))

\* a deletion pass that fails when a delete call of the cleanup has failed
deletionResultStrict(u) ==
    IF u.err # "" THEN Done(u.m, RequeueNone, <<u.err>>)
    ELSE IF \E i \in 1..Len(u.m.log) : u.m.log[i].verb = "delete" /\ u.m.log[i].err # ""
    THEN Done(u.m, RequeueNone, <<"cleanup failed">>)
    ELSE Done(u.m, RequeueNone, NoErr)

\* lines 727-744
deletionResult(u) ==
    IF u.err # "" THEN Done(u.m, RequeueNone, <<u.err>>) ELSE Done(u.m, RequeueNone, NoErr)

\* a deletion pass that clears the finalizer first and cleans up afterwards
cleanedAfter(u) ==
    IF u.err # "" THEN Done(u.m, RequeueNone, <<u.err>>)
    ELSE Done(cleanupUserResources(u.m), RequeueNone, NoErr)

deletionStageFinalizerFirst(m) ==
    IF ~containsString(m.user.finalizers, userFinalizer) THEN Done(m, RequeueNone, NoErr)
    ELSE cleanedAfter(UserUpdate([m EXCEPT !.user.finalizers = removeString(@, userFinalizer)]))

\* a deletion pass that cleans up whether or not the finalizer is present
deletionStageUnguarded(m) ==
    deletionResult(
        UserUpdate([cleanupUserResources(m) EXCEPT
                       !.user.finalizers = removeString(@, userFinalizer)]))

deletionStage(m) ==
    IF ~containsString(m.user.finalizers, userFinalizer) THEN Done(m, RequeueNone, NoErr)
    ELSE deletionResult(
             UserUpdate([cleanupUserResources(m) EXCEPT
                            !.user.finalizers = removeString(@, userFinalizer)]))

\* lines 711-725: the error of the initial status update is logged and dropped
initialStatus(m) ==
    IF m.user.status.phase = ""
    THEN StatusUpdate([m EXCEPT !.user.status.phase = PhasePending,
                                !.user.status.message = <<"Initializing user resources">>]).m
    ELSE m

\* lines 727 and 746: the pass of a User that is being deleted, or of one that is not
initialized(m) ==
    IF m.user.deleting THEN deletionStage([m EXCEPT !.kind = "deletion"])
    ELSE finalizerStage([m EXCEPT !.kind = "normal"])

NoUser(username) ==
    [ns |-> <<>>, name |-> username, deleting |-> FALSE, finalizers |-> {},
     spec |-> [roles |-> <<>>, clusterRoles |-> <<>>],
     status |-> [phase |-> "", message |-> <<>>, expiryTime |-> <<>>,
                 certificateExpiry |-> "", conditions |-> <<>>]]

\* the machine of a pass that starts now
Machine(username, faults, in) ==
    [users |-> users, nss |-> nss, sas |-> sas, secrets |-> secrets, csrs |-> csrs,
     rbs |-> rbs, crbs |-> crbs, keySeq |-> keySeq,
     n |-> 0, faults |-> faults, log |-> <<>>, in |-> in,
     user |-> NoUser(username), kind |-> "absent", cleanup |-> FALSE]

\* a reconciler that comes back for a User it did not find
userGotAbsentRequeued(g, username) ==
    IF g.err = "NotFound" THEN Done(g.m, RequeueRegular, NoErr)
    ELSE IF g.err # "" THEN Done(g.m, RequeueNone, <<g.err>>)
    ELSE initialized(initialStatus([g.m EXCEPT !.user = TheOne(Find(users, <<>>, username))]))

\* lines 703-709
userGot(g, username) ==
    IF g.err = "NotFound" THEN Done(g.m, RequeueNone, NoErr)
    ELSE IF g.err # "" THEN Done(g.m, RequeueNone, <<g.err>>)
    ELSE initialized(initialStatus([g.m EXCEPT !.user = TheOne(Find(users, <<>>, username))]))

\* lines 699-856: one pass for the request named username
ReconcilePass(username, faults, in) ==
    userGot(Get(Machine(username, faults, in), "users", <<>>, username), username)

\* ------------------------------------------------------------ the system

\* the sets of at most k call numbers out of 1..MaxCalls
RECURSIVE FaultSetsUpTo(_)
FaultSetsUpTo(k) ==
    IF k = 0 THEN {{}}
    ELSE FaultSetsUpTo(k - 1) \cup
         {f \cup {c} : f \in FaultSetsUpTo(k - 1), c \in 1..MaxCalls}

FaultSets == FaultSetsUpTo(budget.faults)

\* the value of last after a step of the environment
NoPass == [u |-> <<>>, kind |-> "none", log |-> <<>>, requeue |-> RequeueNone, err |-> NoErr]

Labelled(S, username) == {o \in S : o.label = username}

StoredSpec(username) ==
    IF Find(users, <<>>, username) = {} THEN NoUser(username).spec
    ELSE TheOne(Find(users, <<>>, username)).spec

\* what a pass does not decide: the order in which the API
\* server lists the bindings, and the order in which Go iterates the desired maps
PassInputs(username) ==
    [order : Perms(Labelled(rbs, username)),
     corder : Perms(Labelled(crbs, username)),
     ord : Perms(Range(StoredSpec(username).roles)),
     cord : Perms(Range(ClusterRoleKeys(StoredSpec(username).clusterRoles)))]

\* the store and the record of the pass after the pass r
Applies(r, username, faults) ==
    /\ \A c \in faults : c <= r.m.n
    /\ budget' = [budget EXCEPT !.faults = @ - Cardinality(faults)]
    /\ users' = r.m.users
    /\ nss' = r.m.nss
    /\ sas' = r.m.sas
    /\ secrets' = r.m.secrets
    /\ csrs' = r.m.csrs
    /\ rbs' = r.m.rbs
    /\ crbs' = r.m.crbs
    /\ keySeq' = r.m.keySeq
    /\ cleanupStarted' = IF r.m.cleanup THEN cleanupStarted \cup {username}
                         ELSE cleanupStarted
    /\ last' = [u |-> username, kind |-> r.m.kind, log |-> r.m.log,
                requeue |-> r.requeue, err |-> r.err]
    /\ UNCHANGED <<now, roles, clusterRoles, ca, signer, faulty>>

\* one pass of Reconcile for the request named username
Reconcile(username) ==
    \E faults \in FaultSets, in \in PassInputs(username) :
        Applies(ReconcilePass(username, faults, in), username, faults)

\* ------------------------------------------------------------ the environment

Store == <<users, nss, sas, secrets, csrs, rbs, crbs>>
Fixed == <<ca, signer, faulty, keySeq, cleanupStarted>>

Tick ==
    /\ now < (IF faulty THEN MaxTimeFaults ELSE MaxTime)
    /\ now' = now + 1
    /\ last' = NoPass
    /\ UNCHANGED <<Store, roles, clusterRoles, Fixed, budget>>

\* the certificate the signer issues for a request
Issue(request) ==
    Encode(signer.format,
           [subject |-> request[2][2].subject, key |-> request[2][2].key,
            notAfter |-> now + signer.validity])

\* the external signer fills in the certificate of an approved request
Sign ==
    \E csr \in csrs :
        /\ csr.approved
        /\ csr.certificate = <<>>
        /\ csrs' = (csrs \ {csr}) \cup {[csr EXCEPT !.certificate = Issue(csr.request)]}
        /\ last' = NoPass
        /\ UNCHANGED <<now, users, nss, sas, secrets, rbs, crbs, roles, clusterRoles,
                       Fixed, budget>>

\* the operator changes the desired state of a User that is not being deleted
EditSpec ==
    \E user \in users, desired \in DesiredStates :
        /\ budget.edits > 0
        /\ ~user.deleting
        /\ desired # user.spec
        /\ users' = (users \ {user}) \cup {[user EXCEPT !.spec = desired]}
        /\ budget' = [budget EXCEPT !.edits = @ - 1]
        /\ last' = NoPass
        /\ UNCHANGED <<now, nss, sas, secrets, csrs, rbs, crbs, roles, clusterRoles, Fixed>>

\* kubectl delete user: the deletion timestamp is set while a finalizer holds
\* the object, and the object is removed when none does
DeleteUser ==
    \E user \in users :
        /\ ~user.deleting
        /\ users' = (users \ {user}) \cup
                    (IF user.finalizers = {} THEN {} ELSE {[user EXCEPT !.deleting = TRUE]})
        /\ last' = NoPass
        /\ UNCHANGED <<now, nss, sas, secrets, csrs, rbs, crbs, roles, clusterRoles,
                       Fixed, budget>>

\* a Role that a User may refer to is created or deleted
ToggleRole ==
    \E role \in VolatileRoles :
        /\ budget.external > 0
        /\ roles' = IF role \in roles THEN roles \ {role} ELSE roles \cup {role}
        /\ budget' = [budget EXCEPT !.external = @ - 1]
        /\ last' = NoPass
        /\ UNCHANGED <<now, Store, clusterRoles, Fixed>>

ToggleClusterRole ==
    \E role \in VolatileClusterRoles :
        /\ budget.external > 0
        /\ clusterRoles' = IF role \in clusterRoles THEN clusterRoles \ {role}
                           ELSE clusterRoles \cup {role}
        /\ budget' = [budget EXCEPT !.external = @ - 1]
        /\ last' = NoPass
        /\ UNCHANGED <<now, Store, roles, Fixed>>

\* the value of last after the operator has deleted the kubeconfig secret of
\* username: no pass, and whose rotation has been asked for
Forced(username) == [NoPass EXCEPT !.u = username]

\* kubectl delete secret <user>-kubeconfig: the documented forced rotation
ExternalDeleteSecret ==
    \E s \in secrets, u \in Identities :
        /\ budget.external > 0
        /\ s.name = cfgSecretName(u)
        /\ secrets' = secrets \ {s}
        /\ budget' = [budget EXCEPT !.external = @ - 1]
        /\ last' = Forced(u)
        /\ UNCHANGED <<now, users, nss, sas, csrs, rbs, crbs, roles, clusterRoles, Fixed>>

\* bindings that carry an identity's label without being what the reconciler
\* would write: one under another name, one whose subject has drifted, one
\* under another name with another subject; the operator's manifests name no
\* owner
LegacyRB(username) ==
    [Binding(<<"dev">>, username \o <<"legacy">>, username, "Role", Developer)
        EXCEPT !.owner = <<>>]
DriftedRB(username) ==
    [desiredRB(username, DevDeveloper) EXCEPT !.subjects = <<>>, !.owner = <<>>]
StrayRB(username) ==
    [Binding(<<"dev">>, username \o <<"stray">>, username, "Role", Developer)
        EXCEPT !.subjects = <<[kind |-> "Group", name |-> username]>>, !.owner = <<>>]
DriftedCRB(username) ==
    [desiredCRB(username, RoleSpec(<<>>, Admin)) EXCEPT
        !.subjects = <<[kind |-> "Group", name |-> username]>>, !.owner = <<>>]

\* kubectl apply of a labelled binding
ExternalApplyBinding ==
    \E u \in Identities :
        /\ budget.external > 0
        /\ \/ \E b \in {LegacyRB(u), DriftedRB(u), StrayRB(u)} :
                /\ b \notin rbs
                /\ rbs' = (rbs \ Find(rbs, b.ns, b.name)) \cup {b}
                /\ crbs' = crbs
           \/ /\ DriftedCRB(u) \notin crbs
              /\ crbs' = (crbs \ Find(crbs, <<>>, DriftedCRB(u).name)) \cup {DriftedCRB(u)}
              /\ rbs' = rbs
        /\ budget' = [budget EXCEPT !.external = @ - 1]
        /\ last' = NoPass
        /\ UNCHANGED <<now, users, nss, sas, secrets, csrs, roles, clusterRoles, Fixed>>

\* kubectl delete secret <user>-key
ExternalDeleteKey ==
    \E s \in secrets, u \in Identities :
        /\ budget.external > 0
        /\ s.name = keySecretName(u)
        /\ secrets' = secrets \ {s}
        /\ budget' = [budget EXCEPT !.external = @ - 1]
        /\ last' = NoPass
        /\ UNCHANGED <<now, users, nss, sas, csrs, rbs, crbs, roles, clusterRoles, Fixed>>

\* kubectl delete csr <user>-csr
ExternalDeleteRequest ==
    \E csr \in csrs, u \in Identities :
        /\ budget.external > 0
        /\ csr.name = csrName(u)
        /\ csrs' = csrs \ {csr}
        /\ budget' = [budget EXCEPT !.external = @ - 1]
        /\ last' = NoPass
        /\ UNCHANGED <<now, users, nss, sas, secrets, rbs, crbs, roles, clusterRoles, Fixed>>

\* a signing request under the name the controller uses for username, for
\* another subject and a key the controller has not generated
Mallory == <<"mallory">>
ForeignCSR(username) ==
    [NewCSR(username, Pem(<<"csr", [subject |-> Mallory, key |-> MaxKey + 1]>>))
        EXCEPT !.label = <<>>]

\* kubectl apply of a CertificateSigningRequest by somebody else
ExternalSubmitRequest ==
    \E u \in Identities :
        /\ budget.external > 0
        /\ Find(csrs, <<>>, csrName(u)) = {}
        /\ csrs' = csrs \cup {ForeignCSR(u)}
        /\ budget' = [budget EXCEPT !.external = @ - 1]
        /\ last' = NoPass
        /\ UNCHANGED <<now, users, nss, sas, secrets, rbs, crbs, roles, clusterRoles, Fixed>>

\* ------------------------------------------------------------ specifications

\* the signer and trust anchor configurations of a run
Environments ==
    {[format |-> "pem", validity |-> LongValidity, ca |-> "file"],
     [format |-> "pem", validity |-> ShortValidity, ca |-> "configmap"],
     [format |-> "der", validity |-> LongValidity, ca |-> "file"],
     [format |-> "pem", validity |-> LongValidity, ca |-> "none"]}

\* the configuration of the runs in which API calls fail
EnvironmentsFaults == {[format |-> "pem", validity |-> LongValidity, ca |-> "file"]}

NewUser(username, desired) == [NoUser(username) EXCEPT !.spec = desired]

\* a cluster in which the User objects have just been created
InitWith(f, desiredStates, environments) ==
    /\ now = 0
    /\ \E desired \in desiredStates : users = {NewUser(u, desired) : u \in Identities}
    /\ roles = StableRoles \cup VolatileRoles
    /\ clusterRoles = StableClusterRoles \cup VolatileClusterRoles
    /\ nss = {}
    /\ sas = {}
    /\ secrets = {}
    /\ csrs = {}
    /\ rbs = {}
    /\ crbs = {}
    /\ \E e \in environments :
          /\ signer = [format |-> e.format, validity |-> e.validity]
          /\ ca = e.ca
    /\ faulty = f
    /\ budget = [edits |-> MaxEdits, external |-> MaxExternal,
                 faults |-> IF f THEN MaxFaults ELSE 0]
    /\ keySeq = 0
    /\ cleanupStarted = {}
    /\ last = NoPass

Init == InitWith(FALSE, DesiredStates, Environments)
InitFaults == InitWith(TRUE, DesiredStatesFaults, EnvironmentsFaults)

Next ==
    \/ \E u \in Identities : Reconcile(u)
    \/ Tick
    \/ Sign
    \/ EditSpec
    \/ DeleteUser
    \/ ToggleRole
    \/ ToggleClusterRole
    \/ ExternalDeleteSecret
    \/ ExternalApplyBinding

\* no API call fails for reasons outside the store
Spec == Init /\ [][Next]_vars

\* at most MaxFaults API calls of a run fail for reasons outside the store
SpecFaults == InitFaults /\ [][Next]_vars

\* the configurations in which a trust anchor can be read
EnvironmentsLive == {e \in Environments : e.ca # "none"}

InitLive == InitWith(FALSE, DesiredStates, EnvironmentsLive)

\* the Users are not deleted, the Roles stay, nobody touches what the
\* controller has written
NextLive ==
    \/ \E u \in Identities : Reconcile(u)
    \/ Tick
    \/ Sign
    \/ EditSpec

\* the pass r would change the state
Changes(r, username) ==
    <<r.m.users, r.m.nss, r.m.sas, r.m.secrets, r.m.csrs, r.m.rbs, r.m.crbs, r.m.keySeq,
      r.m.log, r.m.kind, r.requeue, r.err, username>>
        # <<users, nss, sas, secrets, csrs, rbs, crbs, keySeq,
             last.log, last.kind, last.requeue, last.err, last.u>>

\* ENABLED <<Reconcile(username)>>_vars, as a state predicate
Moves(username) ==
    \E faults \in FaultSets, in \in PassInputs(username) :
        /\ \A c \in faults : c <= ReconcilePass(username, faults, in).m.n
        /\ Changes(ReconcilePass(username, faults, in), username)

\* every requeued pass eventually runs (a pass that waits for the signer or
\* has failed is requeued, lines 820 and 825): weak fairness of Reconcile, with
\* its enabling condition written as the state predicate Moves; no API call
\* fails; and the signer eventually signs every approved request
SpecLive ==
    /\ InitLive
    /\ [][NextLive]_vars
    /\ \A u \in Identities : ([]<>~Moves(u)) \/ ([]<><<Reconcile(u)>>_vars)
    /\ WF_vars(Sign)

\* the process stops after call k of a pass: in the store that is a pass in
\* which every later call fails, since a pass acts on the store through its
\* API calls only
After(k) == {c \in 1..MaxCalls : c > k}

NotFault(entry) == entry.err # "Fault"

\* the store after the interrupted pass r; a key that was generated and not
\* stored is lost
Interrupts(r, username) ==
    /\ \E c \in r.m.faults : c <= r.m.n
    /\ users' = r.m.users
    /\ nss' = r.m.nss
    /\ sas' = r.m.sas
    /\ secrets' = r.m.secrets
    /\ csrs' = r.m.csrs
    /\ rbs' = r.m.rbs
    /\ crbs' = r.m.crbs
    /\ keySeq' = IF Find(r.m.secrets, kubeUserNamespace, keySecretName(username))
                     = Find(secrets, kubeUserNamespace, keySecretName(username))
                  THEN keySeq ELSE r.m.keySeq
    /\ last' = [u |-> username, kind |-> "interrupted", log |-> SelectSeq(r.m.log, NotFault),
                requeue |-> RequeueNone, err |-> <<"interrupted">>]
    /\ UNCHANGED <<now, roles, clusterRoles, ca, signer, faulty, budget, cleanupStarted>>

\* a pass for username that is aborted after some of its API calls
Interrupt(username) ==
    \E k \in 0..(MaxCalls - 1), in \in PassInputs(username) :
        Interrupts(ReconcilePass(username, After(k), in), username)

\* the operator does nothing but delete Users; passes may be aborted
NextCrash ==
    \/ \E u \in Identities : Reconcile(u)
    \/ \E u \in Identities : Interrupt(u)
    \/ Tick
    \/ Sign
    \/ DeleteUser

InitCrash == InitWith(FALSE, DesiredStatesFaults, Environments)

SpecCrash == InitCrash /\ [][NextCrash]_vars

\* a second identity, whose name begins with the name of the first, and Roles
\* for which the two identities' bindings get the same name:
\* alice + ops-viewer and alice-ops + viewer are both alice-ops-viewer-rb
AliceOps == <<"alice", "ops">>
Pair == {Alice, AliceOps}
OpsViewer == <<"ops", "viewer">>
OpsView == <<"ops", "view">>
DevOpsViewer == RoleSpec(<<"dev">>, OpsViewer)

\* the desired states of the two Users
DesiredStatesPair ==
    [Alice |-> {[roles |-> <<DevOpsViewer>>, clusterRoles |-> <<OpsView>>],
                [roles |-> <<DevDeveloper>>, clusterRoles |-> <<Admin>>]},
     AliceOps |-> {[roles |-> <<DevViewer>>, clusterRoles |-> <<View>>]}]

InitPair ==
    /\ now = 0
    /\ \E da \in DesiredStatesPair.Alice, db \in DesiredStatesPair.AliceOps :
          users = {NewUser(Alice, da), NewUser(AliceOps, db)}
    /\ roles = StableRoles \cup VolatileRoles \cup {DevOpsViewer}
    /\ clusterRoles = StableClusterRoles \cup VolatileClusterRoles \cup {OpsView}
    /\ nss = {}
    /\ sas = {}
    /\ secrets = {}
    /\ csrs = {}
    /\ rbs = {}
    /\ crbs = {}
    /\ signer = [format |-> "pem", validity |-> LongValidity]
    /\ ca = "file"
    /\ faulty = FALSE
    /\ budget = [edits |-> 0, external |-> 0, faults |-> 0]
    /\ keySeq = 0
    /\ cleanupStarted = {}
    /\ last = NoPass

\* the passes of the two identities interleave in any order
NextPair ==
    \/ \E u \in Pair : Reconcile(u)
    \/ Sign
    \/ DeleteUser

SpecPair == InitPair /\ [][NextPair]_vars

\* the certificates and the payloads the expiry extraction is tried on: every
\* certificate in the three encodings, and payloads that are none of them
Certificates == [subject : Identities, key : 0..MaxKey, notAfter : 0..MaxNotAfter]
Formats == {"b64pem", "pem", "der"}
Malformed ==
    {<<>>} \cup {B64(Der(c)) : c \in Certificates}
           \cup {B64(B64(Pem(Der(c)))) : c \in Certificates}
           \cup {KeyPEM(k) : k \in 0..MaxKey}
           \cup {B64(KeyPEM(k)) : k \in 0..MaxKey}
Payloads == {Encode(f, c) : f \in Formats, c \in Certificates} \cup Malformed

\* a User whose approved request carries one of the payloads
InitDecode ==
    /\ now = 0
    /\ users = {NewUser(u, [roles |-> <<>>, clusterRoles |-> <<>>]) : u \in Identities}
    /\ roles = StableRoles
    /\ clusterRoles = StableClusterRoles
    /\ nss = {}
    /\ sas = {}
    /\ secrets = {}
    /\ \E p \in Payloads :
          csrs = {[NewCSR(u, csrFromKey(u, KeyPEM(0))) EXCEPT
                      !.approved = TRUE, !.certificate = p] : u \in Identities}
    /\ rbs = {}
    /\ crbs = {}
    /\ signer = [format |-> "pem", validity |-> LongValidity]
    /\ ca = "file"
    /\ faulty = FALSE
    /\ budget = [edits |-> 0, external |-> 0, faults |-> 0]
    /\ keySeq = 1
    /\ cleanupStarted = {}
    /\ last = NoPass

\* lines 1375-1383 of ensureCertKubeconfig: the expiry of the signed
\* certificate goes to the status, or the step fails
ExtractExpiry ==
    \E user \in users, csr \in csrs :
        /\ csr.label = user.name
        /\ users' = IF extractCertificateExpiryWithFormatDetection(csr.certificate).ok
                     THEN (users \ {user}) \cup
                          {[user EXCEPT !.status.expiryTime =
                              <<extractCertificateExpiryWithFormatDetection(csr.certificate).t>>]}
                     ELSE users
        /\ last' = [u |-> user.name, kind |-> "extract", log |-> <<>>, requeue |-> RequeueNone,
                    err |-> IF extractCertificateExpiryWithFormatDetection(csr.certificate).ok
                            THEN NoErr
                            ELSE <<"unable to parse certificate in any known format">>]
        /\ UNCHANGED <<now, nss, sas, secrets, csrs, rbs, crbs, roles, clusterRoles,
                       Fixed, budget>>

\* the signer hands the same certificate back in another encoding
Reencode ==
    \E csr \in csrs, c \in Certificates, f \in Formats, g \in Formats :
        /\ csr.certificate = Encode(f, c)
        /\ f # g
        /\ csrs' = (csrs \ {csr}) \cup {[csr EXCEPT !.certificate = Encode(g, c)]}
        /\ last' = NoPass
        /\ UNCHANGED <<now, users, nss, sas, secrets, rbs, crbs, roles, clusterRoles,
                       Fixed, budget>>

NextDecode == ExtractExpiry \/ Reencode

SpecDecode == InitDecode /\ [][NextDecode]_vars

\* a finalizer of another controller
foreignFinalizer == "example.com/hold"

\* another controller puts its finalizer on a User
Hold ==
    \E user \in users :
        /\ budget.external > 0
        /\ ~user.deleting
        /\ foreignFinalizer \notin user.finalizers
        /\ users' = (users \ {user}) \cup {[user EXCEPT !.finalizers = @ \cup {foreignFinalizer}]}
        /\ budget' = [budget EXCEPT !.external = @ - 1]
        /\ last' = NoPass
        /\ UNCHANGED <<now, nss, sas, secrets, csrs, rbs, crbs, roles, clusterRoles, Fixed>>

\* and takes it away: a User that is being deleted and has no finalizer left
\* is removed
Release ==
    \E user \in users :
        /\ foreignFinalizer \in user.finalizers
        /\ users' = (users \ {user}) \cup
                    (IF user.deleting /\ user.finalizers = {foreignFinalizer} THEN {}
                     ELSE {[user EXCEPT !.finalizers = @ \ {foreignFinalizer}]})
        /\ last' = NoPass
        /\ UNCHANGED <<now, nss, sas, secrets, csrs, rbs, crbs, roles, clusterRoles,
                       Fixed, budget>>

NextHeld ==
    \/ \E u \in Identities : Reconcile(u)
    \/ Sign
    \/ DeleteUser
    \/ Hold
    \/ Release

\* Users that another controller may hold back while they are deleted
SpecHeld == InitCrash /\ [][NextHeld]_vars

\* a cluster in which Roles and ClusterRoles that the Users refer to may not
\* exist yet
InitMissing ==
    /\ now = 0
    /\ \E desired \in DesiredStates : users = {NewUser(u, desired) : u \in Identities}
    /\ \E missing \in SUBSET VolatileRoles :
          roles = (StableRoles \cup VolatileRoles) \ missing
    /\ \E missing \in SUBSET VolatileClusterRoles :
          clusterRoles = (StableClusterRoles \cup VolatileClusterRoles) \ missing
    /\ nss = {}
    /\ sas = {}
    /\ secrets = {}
    /\ csrs = {}
    /\ rbs = {}
    /\ crbs = {}
    /\ signer = [format |-> "pem", validity |-> LongValidity]
    /\ ca = "file"
    /\ faulty = FALSE
    /\ budget = [edits |-> MaxEdits, external |-> MaxExternal, faults |-> 0]
    /\ keySeq = 0
    /\ cleanupStarted = {}
    /\ last = NoPass

NextMissing ==
    \/ \E u \in Identities : Reconcile(u)
    \/ Tick
    \/ Sign
    \/ EditSpec
    \/ ToggleRole
    \/ ToggleClusterRole

\* the operator creates a missing Role, or edits the reference away
SpecMissing == InitMissing /\ [][NextMissing]_vars

NextForeign ==
    \/ \E u \in Identities : Reconcile(u)
    \/ Sign
    \/ DeleteUser
    \/ ExternalSubmitRequest

\* somebody else may submit a signing request under the controller's name
SpecForeign == InitCrash /\ [][NextForeign]_vars

NextDeletions ==
    \/ \E u \in Identities : Reconcile(u)
    \/ Sign
    \/ ExternalDeleteSecret
    \/ ExternalDeleteKey
    \/ ExternalDeleteRequest

\* a derived resource may be deleted between two passes
SpecDeletions == InitCrash /\ [][NextDeletions]_vars

\* ------------------------------------------------------------ admission

(***************************************************************************)
(* The validating webhook (internal/webhook/user_webhook.go).  A review    *)
(* threads [n, faults] through its lookups as a pass does; the marker of   *)
(* line 32 sends it the create and update requests, through Handle or,     *)
(* as SetupWithManager registers it, through the validator methods.        *)
(***************************************************************************)

\* the errors of lines 69-76 and 89-96
WebhookRoleError(roleSpec, e) ==
    IF roleSpec.namespace = <<>>
    THEN IF e = "NotFound" THEN <<"clusterrole", roleSpec.existingRole, "not found">>
         ELSE <<"failed to validate clusterrole", roleSpec.existingRole, e>>
    ELSE IF e = "NotFound"
         THEN <<"role", roleSpec.existingRole, "not found in namespace", roleSpec.namespace>>
         ELSE <<"failed to validate role", roleSpec.existingRole, "in namespace",
                roleSpec.namespace, e>>

RECURSIVE webhookValidateRoles(_, _)
webhookGot(g, wanted) ==
    IF g.err # "" THEN [m |-> g.m, err |-> WebhookRoleError(Head(wanted), g.err)]
    ELSE webhookValidateRoles(g.m, Tail(wanted))

\* validateRoles of the webhook: the first failing lookup ends the loop
webhookValidateRoles(m, wanted) ==
    IF wanted = <<>> THEN Ok(m) ELSE webhookGot(GetRole(m, Head(wanted)), wanted)

\* a webhook that does not look the ClusterRoles up
webhookValidateClusterRolesSkipped(m, clusterRoleList) == Ok(m)

\* validateClusterRoles of the webhook
webhookValidateClusterRoles(m, clusterRoleList) ==
    webhookValidateRoles(m, ClusterRoleKeys(clusterRoleList))

\* the ClusterRoles are validated when the Roles were
rolesValidated(v, desired) ==
    IF v.err # NoErr THEN v ELSE webhookValidateClusterRoles(v.m, desired.clusterRoles)

Response(v) ==
    [m |-> v.m, allowed |-> v.err = NoErr,
     message |-> IF v.err = NoErr THEN <<"User resource validation successful">> ELSE v.err]

\* lines 34-59, for the decodable object of a create or update request
Handle(m, user) == Response(rolesValidated(webhookValidateRoles(m, user.spec.roles), user.spec))

ValidateCreate(m, obj) ==
    Response(rolesValidated(webhookValidateRoles(m, obj.spec.roles), obj.spec))

ValidateUpdate(m, oldObj, newObj) ==
    Response(rolesValidated(webhookValidateRoles(m, newObj.spec.roles), newObj.spec))

ValidateDelete(m, obj) == Response(Ok(m))

Operations == {"CREATE", "UPDATE", "DELETE"}
EntryPoints == {"Handle", "Validator"}

\* the review of one request: old is the stored object, new the requested one
Review(m, op, entry, old, new) ==
    IF op = "DELETE" THEN ValidateDelete(m, old)
    ELSE IF entry = "Handle" THEN Handle(m, new)
    ELSE IF op = "CREATE" THEN ValidateCreate(m, new)
    ELSE ValidateUpdate(m, old, new)

\* the API server persists what the review r allowed
Admits(r, username, op, new, faults) ==
    /\ \A c \in faults : c <= r.m.n
    /\ budget' = [budget EXCEPT !.faults = @ - Cardinality(faults)]
    /\ users' = IF ~r.allowed THEN users
                ELSE IF op = "DELETE" THEN users \ Find(users, <<>>, username)
                ELSE (users \ Find(users, <<>>, username)) \cup {new}
    /\ last' = [u |-> username, kind |-> "admission",
                log |-> <<[verb |-> op, spec |-> new.spec, allowed |-> r.allowed,
                           failed |-> faults # {}]>>,
                requeue |-> RequeueNone, err |-> r.message]
    /\ UNCHANGED <<now, nss, sas, secrets, csrs, rbs, crbs, roles, clusterRoles, Fixed>>

\* kubectl create, apply or delete of a User
Admit ==
    \E u \in Identities, op \in Operations, entry \in EntryPoints,
       desired \in DesiredStates, faults \in FaultSets :
        /\ (op = "CREATE") <=> (Find(users, <<>>, u) = {})
        /\ op = "DELETE" => (entry = "Validator" /\ desired = StoredSpec(u))
        /\ Admits(Review([n |-> 0, faults |-> faults], op, entry,
                         IF op = "CREATE" THEN NoUser(u) ELSE TheOne(Find(users, <<>>, u)),
                         IF op = "CREATE" THEN NewUser(u, desired)
                         ELSE [TheOne(Find(users, <<>>, u)) EXCEPT !.spec = desired]),
                  u, op,
                  IF op = "CREATE" THEN NewUser(u, desired)
                  ELSE [TheOne(Find(users, <<>>, u)) EXCEPT !.spec = desired],
                  faults)

\* a cluster without Users, in which some of the Roles may be missing
InitAdmission ==
    /\ now = 0
    /\ users = {}
    /\ \E missing \in SUBSET VolatileRoles :
          roles = (StableRoles \cup VolatileRoles) \ missing
    /\ \E missing \in SUBSET VolatileClusterRoles :
          clusterRoles = (StableClusterRoles \cup VolatileClusterRoles) \ missing
    /\ nss = {}
    /\ sas = {}
    /\ secrets = {}
    /\ csrs = {}
    /\ rbs = {}
    /\ crbs = {}
    /\ signer = [format |-> "pem", validity |-> LongValidity]
    /\ ca = "file"
    /\ faulty = TRUE
    /\ budget = [edits |-> 0, external |-> MaxExternal, faults |-> MaxFaults]
    /\ keySeq = 0
    /\ cleanupStarted = {}
    /\ last = NoPass

NextAdmission == Admit \/ ToggleRole \/ ToggleClusterRole

SpecAdmission == InitAdmission /\ [][NextAdmission]_vars

\* ------------------------------------------------------------ properties

StoredUser(username) == TheOne(Find(users, <<>>, username))
Exists(username) == Find(users, <<>>, username) # {}

\* the last step was a pass of the given kind for username
PassOf(username, kind) == last.u = username /\ last.kind = kind

\* the positions of the write calls of the last pass on objects of a kind
Calls(verbs, kind) ==
    {i \in 1..Len(last.log) : last.log[i].verb \in verbs /\ last.log[i].kind = kind}
Wrote(verbs, kind) == {i \in Calls(verbs, kind) : last.log[i].err = ""}
WroteNamed(verbs, kind, name) == {i \in Wrote(verbs, kind) : last.log[i].name = name}

KeySecrets(username) == Find(secrets, kubeUserNamespace, keySecretName(username))
CfgSecrets(username) == Find(secrets, kubeUserNamespace, cfgSecretName(username))

\* the labelled bindings are one per desired key and none for another key
Converged(username) ==
    LET wantRB == Range(StoredUser(username).spec.roles)
        wantCRB == Range(ClusterRoleKeys(StoredUser(username).spec.clusterRoles))
    IN  /\ \A key \in wantRB :
              Cardinality({b \in Labelled(rbs, username) : KeyOf(b) = key}) = 1
        /\ \A b \in Labelled(rbs, username) : KeyOf(b) \in wantRB
        /\ \A key \in wantCRB :
              Cardinality({b \in Labelled(crbs, username) : KeyOf(b) = key}) = 1
        /\ \A b \in Labelled(crbs, username) : KeyOf(b) \in wantCRB

\* C1: Convergence. After a pass in which reconcileRoleBindings and
\* reconcileClusterRoleBindings both returned without error (a pass of a live
\* User that ends without error when no API call fails), the bindings that
\* carry the identity's label are exactly one per desired key and none for
\* any other key, whatever labelled bindings the pass started from.
C1_Convergence ==
    \A u \in Identities : (PassOf(u, "normal") /\ last.err = NoErr) => Converged(u)

\* the desired namespace roles of username that do not exist
MissingRoles(username) == Range(StoredUser(username).spec.roles) \ roles

\* C2: Validation gate. If a desired (namespace, role) reference names a Role
\* that does not exist, the pass creates no binding for the identity, the
\* persisted phase is Error, and the persisted message names a missing role
\* and its namespace.
C2_ValidationGate ==
    \A u \in Identities :
        (PassOf(u, "normal") /\ MissingRoles(u) # {}) =>
            /\ Calls({"create"}, "rbs") = {}
            /\ Calls({"create"}, "crbs") = {}
            /\ StoredUser(u).status.phase = PhaseError
            /\ \E missing \in MissingRoles(u) :
                  /\ StoredUser(u).status.message[2][2] = missing.existingRole
                  /\ StoredUser(u).status.message[2][4] = missing.namespace

\* a pass met a missing role after an earlier pass had created bindings
C2_Witness ==
    \E u \in Identities :
        /\ PassOf(u, "normal")
        /\ MissingRoles(u) # {}
        /\ StoredUser(u).status.phase = PhaseError
        /\ Labelled(rbs, u) # {}

\* C3: Single live signing request. In every state at most one signing
\* request carries an identity's label, and a pass creates a request only if
\* none existed when the pass started or the pass itself had deleted it (a
\* rotation) before: a pass that finds a request at the request step never
\* creates another.
C3_SingleRequest ==
    /\ [](\A u \in Identities : Cardinality(Labelled(csrs, u)) <= 1)
    /\ [][\A u \in Identities :
            (last'.u = u /\ last'.kind = "normal") =>
                \A i \in 1..Len(last'.log) :
                    (last'.log[i].verb = "create" /\ last'.log[i].kind = "csrs") =>
                        \/ Labelled(csrs, u) = {}
                        \/ \E j \in 1..(i - 1) :
                              /\ last'.log[j].verb = "delete"
                              /\ last'.log[j].kind = "csrs"
                              /\ last'.log[j].err = ""]_vars

\* a pass repeated while the request is approved and unsigned left it alone
C3_Witness ==
    \E u \in Identities :
        /\ PassOf(u, "normal")
        /\ last.requeue = RequeueCert
        /\ Calls({"create", "approve", "delete"}, "csrs") = {}
        /\ \E csr \in Labelled(csrs, u) : csr.approved /\ csr.certificate = <<>>

\* C4: The connection credential is never created before signing completes.
\* Every pass that writes the kubeconfig secret started from a state in which
\* the identity's signing request was approved and carried a signed
\* certificate, and the kubeconfig it writes embeds that certificate.
C4_SignedBeforeCredential ==
    [][\A u \in Identities :
         (last'.u = u /\ CfgSecrets(u)' # {} /\ CfgSecrets(u)' # CfgSecrets(u)) =>
             \E csr \in Labelled(csrs, u) :
                 /\ csr.approved
                 /\ csr.certificate # <<>>
                 /\ extractClientCertFromKubeconfig(TheOne(CfgSecrets(u)').data.config)
                        = B64(csr.certificate)]_vars

\* a pass has created the kubeconfig secret
C4_Witness ==
    \E u \in Identities :
        /\ WroteNamed({"create"}, "secrets", cfgSecretName(u)) # {}
        /\ CfgSecrets(u) # {}

RECURSIVE Certificate(_)
\* the certificate inside an encoded payload
Certificate(payload) ==
    IF IsTagged(payload, "der") THEN payload[2] ELSE Certificate(payload[2])

\* when the certificate embedded in the kubeconfig secret expires
EmbeddedExpiry(username) ==
    Certificate(extractClientCertFromKubeconfig(TheOne(CfgSecrets(username)).data.config)).notAfter

\* C5: Rotation trigger. A pass that reaches the credential step while a
\* kubeconfig secret exists whose embedded certificate expires in strictly
\* less than 30 days deletes that secret and the identity's signing request and
\* submits a new request; when 30 days or more are left it deletes neither.
C5_RotationTrigger ==
    [][\A u \in Identities :
         (last'.u = u /\ last'.kind = "normal" /\ last'.err = NoErr /\ CfgSecrets(u) # {}) =>
             IF EmbeddedExpiry(u) - now < RotationThreshold
             THEN /\ WroteNamed({"delete"}, "secrets", cfgSecretName(u))' # {}
                  /\ Labelled(csrs, u) # {} => Wrote({"delete"}, "csrs")' # {}
                  /\ Wrote({"create"}, "csrs")' # {}
             ELSE /\ Calls({"delete"}, "secrets")' = {}
                  /\ Calls({"delete"}, "csrs")' = {}]_vars

\* C6: Key continuity. A pass of a User that is not being deleted makes no
\* write call on an existing private-key secret and leaves it as it was, and
\* it generates a key only if it started without a key secret.
C6_KeyContinuity ==
    [][\A u \in Identities :
         (last'.u = u /\ last'.kind = "normal") =>
             /\ KeySecrets(u) # {} =>
                   /\ KeySecrets(u)' = KeySecrets(u)
                   /\ \A i \in 1..Len(last'.log) :
                         ~(last'.log[i].kind = "secrets"
                           /\ last'.log[i].name = keySecretName(u))
             /\ keySeq' # keySeq => KeySecrets(u) = {}]_vars

\* a rotation pass has deleted the kubeconfig secret and the request, and the
\* key secret is there
C6_Witness ==
    \E u \in Identities :
        /\ PassOf(u, "normal")
        /\ WroteNamed({"delete"}, "secrets", cfgSecretName(u)) # {}
        /\ Wrote({"delete"}, "csrs") # {}
        /\ KeySecrets(u) # {}

\* nothing derived from the identity is left
NoResources(username) ==
    /\ Labelled(rbs, username) = {}
    /\ Labelled(crbs, username) = {}
    /\ KeySecrets(username) = {}
    /\ CfgSecrets(username) = {}
    /\ Labelled(csrs, username) = {}
    /\ Find(sas, kubeUserNamespace, username) = {}

\* C7: Cleanup completeness. After the deletion pass of a User that has the
\* finalizer, no binding with the identity's label, no key secret, no
\* kubeconfig secret, no signing request and no ServiceAccount of the identity
\* is left, and the update that clears the finalizer is the last call of the
\* pass, after which the User is gone.
C7_CleanupComplete ==
    \A u \in Identities :
        (PassOf(u, "deletion") /\ last.log # <<>>) =>
            /\ NoResources(u)
            /\ Wrote({"update"}, "users") = {Len(last.log)}
            /\ \A i \in 1..(Len(last.log) - 1) : last.log[i].verb = "delete"
            /\ ~Exists(u)

\* a deletion pass has deleted bindings of both kinds and both secrets
C7_Witness ==
    \E u \in Identities :
        /\ PassOf(u, "deletion")
        /\ Wrote({"delete"}, "rbs") # {}
        /\ Wrote({"delete"}, "crbs") # {}
        /\ WroteNamed({"delete"}, "secrets", keySecretName(u)) # {}
        /\ WroteNamed({"delete"}, "secrets", cfgSecretName(u)) # {}
        /\ ~Exists(u)

\* C8: Deletion invariant. Also when list or delete calls of the cleanup
\* fail, a deletion pass removes the finalizer only when nothing derived from
\* the identity is left.
C8_DeletionInvariant ==
    \A u \in Identities :
        (PassOf(u, "deletion") /\ Wrote({"update"}, "users") # {}) => NoResources(u)

\* something the controller has created for the identity exists
ControllerResources(username) ==
    \/ Find(sas, kubeUserNamespace, username) # {}
    \/ KeySecrets(username) # {}
    \/ CfgSecrets(username) # {}
    \/ Labelled(csrs, username) # {}
    \/ \E b \in rbs \cup crbs : b.owner = username

\* C9: Finalizer before resources. While something the controller has created
\* for an identity exists, the stored User carries the finalizer or its
\* cleanup has started; and a pass whose finalizer-adding update fails makes
\* no create call.
C9_FinalizerFirst ==
    \A u \in Identities :
        /\ ControllerResources(u) =>
              \/ Exists(u) /\ containsString(StoredUser(u).finalizers, userFinalizer)
              \/ u \in cleanupStarted
        /\ (PassOf(u, "normal") /\ Calls({"update"}, "users") # Wrote({"update"}, "users")) =>
              \A i \in 1..Len(last.log) : last.log[i].verb # "create"

\* the finalizer-adding update of a pass has failed
C9_Witness ==
    \E u \in Identities :
        /\ PassOf(u, "normal")
        /\ Calls({"update"}, "users") # Wrote({"update"}, "users")
        /\ ~containsString(StoredUser(u).finalizers, userFinalizer)

\* C10: Idempotence. A pass that follows, with no step of the environment in
\* between, a pass of the same User that ran to its end (no error, the
\* regular requeue) makes no write call.
C10_Idempotence ==
    [][\A u \in Identities :
         (PassOf(u, "normal") /\ last.err = NoErr /\ last.requeue = RequeueRegular
          /\ last'.u = u /\ last'.kind # "none") =>
             last'.log = <<>>]_vars

\* the kinds of the objects that binding work and credential work write
WorkKinds == {"rbs", "crbs", "secrets", "csrs"}

\* the expiry the stored status of username shows is in the past
ObservedExpired(username) ==
    /\ Exists(username)
    /\ StoredUser(username).status.expiryTime # <<>>
    /\ now > StoredUser(username).status.expiryTime[1]

\* C11: Expiry-driven phase. A pass that starts with the observed expiry
\* timestamp in the past leaves the phase Expired and makes no create, update
\* or delete call on a binding, a secret or a signing request and no approval.
C11_ExpiredPhase ==
    [][\A u \in Identities :
         (last'.u = u /\ last'.kind = "normal" /\ ObservedExpired(u)) =>
             /\ StoredUser(u)'.status.phase = PhaseExpired
             /\ \A i \in 1..Len(last'.log) : last'.log[i].kind \notin WorkKinds]_vars

\* C12: Published is terminal. A pass that reaches the credential step while
\* the kubeconfig secret exists and its certificate has 30 days or more left
\* takes the short-circuit: ensureCertKubeconfig returns no requeue and no
\* error (the pass ends with the requeue of lines 829-855), and the pass makes
\* no write call on a secret or a signing request.
C12_PublishedTerminal ==
    [][\A u \in Identities :
         (last'.u = u /\ last'.kind = "normal" /\ last'.err = NoErr
          /\ CfgSecrets(u) # {} /\ EmbeddedExpiry(u) - now >= RotationThreshold) =>
             /\ last'.requeue \in {RequeueRegular, RequeueHourly, RequeueNone}
             /\ \A i \in 1..Len(last'.log) : last'.log[i].kind \notin {"secrets", "csrs"}]_vars

\* how far the credential state machine of username has come: 0 no key,
\* 1 key, 2 request submitted, 3 request approved, 4 signed, 5 published
Stage(username) ==
    IF CfgSecrets(username) # {} THEN 5
    ELSE IF \E csr \in Labelled(csrs, username) : csr.certificate # <<>> THEN 4
    ELSE IF \E csr \in Labelled(csrs, username) : csr.approved THEN 3
    ELSE IF Labelled(csrs, username) # {} THEN 2
    ELSE IF KeySecrets(username) # {} THEN 1
    ELSE 0

\* where a pass that starts at stage s leaves the state machine
Advance(s) ==
    CASE s \in {0, 1} -> 2
      [] s = 2 -> 3
      [] s = 4 -> 5
      [] OTHER -> s

\* C13: Provisioning liveness. Until the kubeconfig secret is published, a
\* pass resumes from the artifacts that exist: it submits the request (after
\* generating the key if there is none), approves a submitted request, waits
\* for an approved one and publishes a signed one; only the signer moves an
\* approved request to signed; every such pass that has not published asks
\* for a requeue; and the kubeconfig secret is eventually published.
C13_ProvisioningLiveness ==
    /\ [][\A u \in Identities :
            Stage(u) < 5 =>
                IF last'.u = u /\ last'.kind = "normal"
                THEN /\ Stage(u)' = Advance(Stage(u))
                     /\ Stage(u)' < 5 => last'.requeue = RequeueCert
                ELSE Stage(u)' \in {Stage(u)} \cup (IF Stage(u) = 3 THEN {4} ELSE {})]_vars
    /\ \A u \in Identities : <>(Stage(u) = 5)

\* a pass has published the certificate of an approved and signed request
\* while the key generated first is still the key
C13_Witness ==
    \E u \in Identities :
        /\ PassOf(u, "normal")
        /\ Stage(u) = 5
        /\ WroteNamed({"create"}, "secrets", cfgSecretName(u)) # {}
        /\ \E csr \in Labelled(csrs, u) : csr.approved /\ csr.certificate # <<>>
        /\ TheOne(KeySecrets(u)).data.keypem = KeyPEM(0)

\* C14: Forced rotation. The pass that follows the external deletion of the
\* kubeconfig secret of an existing User starts a rotation: it submits a new
\* signing request and does not publish a kubeconfig secret from the request
\* that was there before the deletion.
C14_ForcedRotation ==
    [][\A u \in Identities :
         (last = Forced(u) /\ last'.u = u /\ last'.kind = "normal" /\ last'.err = NoErr) =>
             /\ Wrote({"create"}, "csrs")' # {}
             /\ WroteNamed({"create"}, "secrets", cfgSecretName(u))' = {}]_vars

\* the last step was a pass for username that ran to its end
Completed(username) ==
    /\ PassOf(username, "normal")
    /\ last.err = NoErr
    /\ last.requeue \in {RequeueRegular, RequeueHourly}

\* what an uninterrupted run leaves when its passes have run to the end: the
\* finalizer, the ServiceAccount, the desired bindings and no others, the key,
\* one approved and signed request made from the key, and a kubeconfig secret
\* that embeds the certificate of the request and the key
Provisioned(username) ==
    /\ Exists(username)
    /\ containsString(StoredUser(username).finalizers, userFinalizer)
    /\ StoredUser(username).status.phase \in {PhaseActive, PhaseExpired}
    /\ StoredUser(username).status.expiryTime # <<>>
    /\ Find(sas, kubeUserNamespace, username) # {}
    /\ Converged(username)
    /\ \A b \in Labelled(rbs, username) : b = desiredRB(username, KeyOf(b))
    /\ \A b \in Labelled(crbs, username) : b = desiredCRB(username, KeyOf(b))
    /\ Cardinality(KeySecrets(username)) = 1
    /\ Cardinality(CfgSecrets(username)) = 1
    /\ Cardinality(Labelled(csrs, username)) = 1
    /\ \A csr \in Labelled(csrs, username) :
          /\ csr.approved
          /\ csr.request = csrFromKey(username, TheOne(KeySecrets(username)).data.keypem)
          /\ TheOne(CfgSecrets(username)).data.config =
                 buildCertKubeconfig(apiServer, getClusterCABase64(Machine(username, {}, <<>>)).data,
                                     B64(csr.certificate),
                                     B64(TheOne(KeySecrets(username)).data.keypem), username)

\* C15: Idempotent re-entry after interruption. Whatever passes were aborted
\* after whatever prefix of their API calls, a pass that then runs to its end
\* leaves the state an uninterrupted run leaves; an aborted deletion pass
\* leaves the finalizer in place while anything derived from the identity
\* remains, and once the User is gone nothing derived from it is left.
C15_IdempotentReentry ==
    \A u \in Identities :
        /\ Completed(u) => Provisioned(u)
        /\ (PassOf(u, "interrupted") /\ ~NoResources(u) /\ Exists(u)) =>
              containsString(StoredUser(u).finalizers, userFinalizer)
        /\ ~Exists(u) => NoResources(u)

\* a pass has resumed where an aborted pass had stopped: it has found the key
\* without a request, which no pass that runs to its end leaves behind, and
\* has submitted the request without generating a key or deleting anything
C15_Witness ==
    \E u \in Identities :
        /\ PassOf(u, "normal")
        /\ Wrote({"create"}, "csrs") # {}
        /\ WroteNamed({"create"}, "secrets", keySecretName(u)) = {}
        /\ Calls({"delete"}, "secrets") \cup Calls({"delete"}, "csrs") = {}

\* the objects of the store that belong to username: what carries its label,
\* and the secrets named for it
Belongings(username, S, A, K, R, C) ==
    Labelled(S, username) \cup Labelled(R, username) \cup Labelled(C, username)
        \cup Labelled(K, username)
        \cup {o \in A : o.name \in {keySecretName(username), cfgSecretName(username)}}

\* C16: Cross-identity isolation. Under any interleaving of the passes of two
\* identities, a pass for one of them leaves every ServiceAccount, secret,
\* signing request and binding that belongs to the other exactly as it was,
\* and adds none.
C16_Isolation ==
    [][\A a \in Pair, b \in Pair :
         (a # b /\ last'.u = a /\ last'.kind # "none") =>
             Belongings(b, sas, secrets, csrs, rbs, crbs)'
                 = Belongings(b, sas, secrets, csrs, rbs, crbs)]_vars

\* the deletion pass of one identity has deleted its bindings, secrets and
\* request while the bindings, secrets and request of the other are there
C16_Witness ==
    /\ PassOf(Alice, "deletion")
    /\ Wrote({"delete"}, "rbs") # {}
    /\ Wrote({"delete"}, "secrets") # {}
    /\ Labelled(rbs, AliceOps) # {}
    /\ Labelled(crbs, AliceOps) # {}
    /\ Labelled(csrs, AliceOps) # {}
    /\ Find(secrets, kubeUserNamespace, cfgSecretName(AliceOps)) # {}

\* an update that did not carry the version of the object it names: nothing
\* else acts while a pass runs, so the API server answers Conflict or NotFound
\* to an update only if the version it carries was read from another object
ForeignToken(entry) ==
    /\ entry.verb = "update"
    /\ entry.kind \in {"rbs", "crbs", "sas", "secrets"}
    /\ entry.err \in {"Conflict", "NotFound"}

\* C17: Optimistic concurrency. Every update a pass issues to a binding, a
\* ServiceAccount or a secret carries the version of that same object, as the
\* pass has read it.
C17_OwnVersionToken ==
    \A u \in Identities :
        PassOf(u, "normal") => \A i \in 1..Len(last.log) : ~ForeignToken(last.log[i])

\* C18: Certificate-format robustness. For a certificate presented as
\* base64-wrapped PEM, as raw PEM or as raw DER the expiry extraction succeeds
\* and yields the certificate's validity end, the same for the three; and it
\* fails only on a payload that none of the three decoders parses.
C18_FormatRobustness ==
    \A csr \in csrs :
        (PassOf(csr.label, "extract") /\ Exists(csr.label)) =>
            /\ \A c \in Certificates, f \in Formats :
                  csr.certificate = Encode(f, c) =>
                      /\ last.err = NoErr
                      /\ StoredUser(csr.label).status.expiryTime = <<c.notAfter>>
            /\ last.err # NoErr =>
                  /\ ~tryBase64PEM(csr.certificate).ok
                  /\ ~tryRawPEM(csr.certificate).ok
                  /\ ~tryRawDER(csr.certificate).ok

\* the expiry of the latest-ending certificate has been extracted from its
\* binary encoding, the last of the three decoders tried
C18_Witness ==
    \E csr \in csrs :
        /\ PassOf(csr.label, "extract")
        /\ IsTagged(csr.certificate, "der")
        /\ last.err = NoErr
        /\ StoredUser(csr.label).status.expiryTime = <<csr.certificate[2].notAfter>>
        /\ csr.certificate[2].notAfter = MaxNotAfter

\* the conditions of type Ready in the stored status of username
ReadyConditions(username) ==
    {i \in 1..Len(StoredUser(username).status.conditions) :
        StoredUser(username).status.conditions[i].type = PhaseReady}

\* C19: Ready mirrors phase. In the stored state of a User after any pass
\* there is at most one condition of type Ready and, if the phase is set,
\* that condition's status is True exactly when the stored phase is Active.
C19_ReadyMirrorsPhase ==
    \A u \in Identities :
        (PassOf(u, "normal") /\ Exists(u)) =>
            /\ Cardinality(ReadyConditions(u)) <= 1
            /\ StoredUser(u).status.phase # "" =>
                  \A i \in ReadyConditions(u) :
                      StoredUser(u).status.conditions[i].status = "True"
                          <=> StoredUser(u).status.phase = PhaseActive

\* C20: Error phase on hard error. After a pass in which the binding
\* reconciliation returned an error (the pass returns it) or
\* ensureCertKubeconfig returned one (the pass asks for the 5s requeue), the
\* stored phase is Error.
C20_ErrorPhaseOnHardError ==
    \A u \in Identities :
        (PassOf(u, "normal") /\ Exists(u)
         /\ (last.err # NoErr \/ last.requeue = RequeueCertError)) =>
            StoredUser(u).status.phase = PhaseError

\* every Role and ClusterRole that desired refers to exists
AllExist(desired) ==
    /\ \A i \in 1..Len(desired.roles) : desired.roles[i] \in roles
    /\ \A i \in 1..Len(desired.clusterRoles) : desired.clusterRoles[i] \in clusterRoles

\* C21: Admission gate. The webhook allows a create or update of a User
\* exactly when every referenced Role and ClusterRole exists at admission
\* time and no lookup fails; a rejected request changes no User; a delete
\* request is always allowed.
C21_AdmissionGate ==
    [][last'.kind = "admission" =>
         /\ last'.log[1].verb \in {"CREATE", "UPDATE"} =>
               (last'.log[1].allowed <=>
                    (AllExist(last'.log[1].spec) /\ ~last'.log[1].failed))
         /\ last'.log[1].verb = "DELETE" => last'.log[1].allowed
         /\ ~last'.log[1].allowed => users' = users
         /\ (last'.log[1].allowed /\ last'.log[1].verb # "DELETE") =>
               \E user \in users' : user.name = last'.u /\ user.spec = last'.log[1].spec]_vars

\* an update that refers to a ClusterRole deleted after the User was created
\* has been rejected, no lookup having failed
C21_Witness ==
    /\ last.kind = "admission"
    /\ last.log[1].verb = "UPDATE"
    /\ ~last.log[1].allowed
    /\ ~last.log[1].failed
    /\ \A i \in 1..Len(last.log[1].spec.roles) : last.log[1].spec.roles[i] \in roles
    /\ \E i \in 1..Len(last.log[1].spec.clusterRoles) :
          last.log[1].spec.clusterRoles[i] \notin clusterRoles
    /\ budget.external < MaxExternal

\* C22: Absent object is a no-op. A pass for a User name that is not in the
\* store returns no error and no requeue, makes no write call and leaves
\* every object as it was.
C22_AbsentNoOp ==
    [][\A u \in Identities :
         (last'.u = u /\ last'.kind \in {"absent", "normal", "deletion"} /\ ~Exists(u)) =>
             /\ last'.kind = "absent"
             /\ last'.err = NoErr
             /\ last'.requeue = RequeueNone
             /\ last'.log = <<>>
             /\ UNCHANGED <<Store, keySeq, cleanupStarted>>]_vars

\* a pass has run for a User that was removed after its cleanup, while
\* objects of other kinds are still in the store
C22_Witness ==
    /\ PassOf(Alice, "absent")
    /\ ~Exists(Alice)
    /\ Alice \in cleanupStarted
    /\ nss # {}

\* the desired state of username names a ClusterRole that does not exist
MissingClusterRole(username) ==
    \E i \in 1..Len(StoredSpec(username).clusterRoles) :
        StoredSpec(username).clusterRoles[i] \notin clusterRoles

\* C23: Hard stop covers cluster-roles. A pass for a User one of whose desired
\* cluster-role references names a ClusterRole that does not exist fails, and
\* creates, updates and deletes no RoleBinding and no ClusterRoleBinding.
C23_HardStopClusterRoles ==
    [][\A u \in Identities :
         (last'.u = u /\ last'.kind = "normal" /\ MissingClusterRole(u)) =>
             /\ last'.err # NoErr
             /\ \A i \in 1..Len(last'.log) : last'.log[i].kind \notin {"rbs", "crbs"}]_vars

\* C24: Abort on binding error. A pass in which the reconciliation of the
\* RoleBindings or of the ClusterRoleBindings returns an error stores phase
\* Error with a message that holds the error, its last call being that status
\* update, returns the error, and runs no later step: after a RoleBinding
\* error no ClusterRoleBinding is written, and after either error the Ready
\* condition and the expiry are as before and no secret or signing request is
\* written.
C24_AbortOnBindingError ==
    [][\A u \in Identities :
         (last'.u = u /\ last'.kind = "normal" /\ last'.err # NoErr) =>
             /\ StoredUser(u)'.status.phase = PhaseError
             /\ StoredUser(u)'.status.message \in
                    {<<"Failed to reconcile RoleBindings", last'.err>>,
                     <<"Failed to reconcile ClusterRoleBindings", last'.err>>}
             /\ last'.log[Len(last'.log)].verb = "status"
             /\ last'.requeue = RequeueNone
             /\ StoredUser(u)'.status.message[1] = "Failed to reconcile RoleBindings" =>
                    \A i \in 1..Len(last'.log) : last'.log[i].kind # "crbs"
             /\ \A i \in 1..Len(last'.log) : last'.log[i].kind \notin {"secrets", "csrs"}
             /\ StoredUser(u)'.status.conditions = StoredUser(u).status.conditions
             /\ StoredUser(u)'.status.expiryTime = StoredUser(u).status.expiryTime]_vars

\* a pass has failed in the RoleBindings after it had written one of them,
\* for a User that wants ClusterRoleBindings too and was Active before
C24_Witness ==
    /\ PassOf(Alice, "normal")
    /\ last.err # NoErr
    /\ Exists(Alice)
    /\ StoredUser(Alice).status.message[1] = "Failed to reconcile RoleBindings"
    /\ StoredUser(Alice).spec.clusterRoles # <<>>
    /\ StoredUser(Alice).status.conditions # <<>>
    /\ \E i \in 1..Len(last.log) : last.log[i].kind = "rbs"

\* the requeue that the expiry e observed at the end of a pass asks for
FromExpiry(e) ==
    IF e # <<>> /\ e[1] - now <= 0 THEN RequeueNone
    ELSE IF e # <<>> /\ e[1] - now < ExpirySoon THEN RequeueHourly
    ELSE RequeueRegular

\* C25: Scheduling directive. A pass that gets past the binding
\* reconciliation returns no error and either the 5s requeue (credential
\* error), or the 3s requeue (credential step pending: the request of the
\* identity is not signed yet), or the directive of the observed expiry: no
\* requeue and phase Expired when it is past, 1 hour when less than 24 hours
\* are left, 30 minutes in every other case.
C25_SchedulingDirective ==
    [][\A u \in Identities :
         (last'.u = u /\ last'.kind = "normal" /\ last'.err = NoErr) =>
             \/ last'.requeue = RequeueCertError
             \/ /\ last'.requeue = RequeueCert
                /\ \E csr \in csrs' : csr.label = u /\ csr.certificate = <<>>
             \/ /\ last'.requeue = FromExpiry(StoredUser(u)'.status.expiryTime)
                /\ last'.requeue = RequeueNone => StoredUser(u)'.status.phase = PhaseExpired]_vars

\* C26: Deletion pass does nothing else. A pass for a User that has a
\* deletion timestamp creates and updates no namespace, ServiceAccount,
\* binding, secret or signing request and asks for no requeue; with the
\* finalizer present it runs the cleanup and, unless the update fails, the
\* finalizer is gone afterwards; without it the pass makes no delete call
\* and leaves every such object in place.
C26_DeletionPassOnly ==
    [][\A u \in Identities :
         (last'.u = u /\ last'.kind = "deletion") =>
             /\ \A i \in 1..Len(last'.log) :
                   last'.log[i].kind # "users" => last'.log[i].verb = "delete"
             /\ nss' \subseteq nss /\ sas' \subseteq sas /\ secrets' \subseteq secrets
             /\ csrs' \subseteq csrs /\ rbs' \subseteq rbs /\ crbs' \subseteq crbs
             /\ last'.requeue = RequeueNone
             /\ IF userFinalizer \in StoredUser(u).finalizers
                THEN /\ u \in cleanupStarted'
                     /\ last'.err = NoErr =>
                           (Exists(u)' => userFinalizer \notin StoredUser(u)'.finalizers)
                ELSE /\ \A i \in 1..Len(last'.log) : last'.log[i].kind = "users"
                     /\ UNCHANGED <<nss, sas, secrets, csrs, rbs, crbs>>
                     /\ last'.err = NoErr]_vars

\* a deletion pass has run for a User that another controller holds back,
\* after the cleanup and the removal of the finalizer, and has called nothing
C26_Witness ==
    /\ PassOf(Alice, "deletion")
    /\ Exists(Alice)
    /\ userFinalizer \notin StoredUser(Alice).finalizers
    /\ Alice \in cleanupStarted
    /\ last.log = <<>>
    /\ nss # {}

\* C27: Deletion-path errors. A deletion pass returns an error exactly when
\* the update that removes the finalizer fails, whatever the list and delete
\* calls of the cleanup answer (not-found included); and after such an error
\* the stored User still has its deletion timestamp and the finalizer.
C27_DeletionPathErrors ==
    [][\A u \in Identities :
         (last'.u = u /\ last'.kind = "deletion") =>
             /\ last'.err # NoErr <=>
                   Calls({"update"}, "users")' # Wrote({"update"}, "users")'
             /\ last'.err # NoErr =>
                   /\ Exists(u)'
                   /\ StoredUser(u)'.deleting
                   /\ userFinalizer \in StoredUser(u)'.finalizers]_vars

\* a deletion pass in which a delete call failed for a reason outside the
\* store and another found nothing has returned no error and removed the User
C27_Witness ==
    /\ PassOf(Alice, "deletion")
    /\ last.err = NoErr
    /\ ~Exists(Alice)
    /\ \E i \in 1..Len(last.log) : last.log[i].verb = "delete" /\ last.log[i].err = "Fault"
    /\ \E i \in 1..Len(last.log) : last.log[i].verb = "delete" /\ last.log[i].err = "NotFound"

\* the calls of the last pass that write the kubeconfig secret of username
Publishes(username) ==
    {i \in Calls({"create", "update"}, "secrets") : last.log[i].name = cfgSecretName(username)}

\* C28: One credential step per pass. A pass makes at most one call out of
\* submitting the signing request, approving it and publishing the kubeconfig
\* secret; a pass that submits or approves, or that finds the request approved
\* and unsigned while no kubeconfig exists, ends with the 3s requeue and
\* publishes nothing.
C28_OneCredentialStep ==
    [][\A u \in Identities :
         (last'.u = u /\ last'.kind = "normal") =>
             /\ Cardinality(Calls({"create"}, "csrs")' \cup Calls({"approve"}, "csrs")'
                            \cup Publishes(u)') <= 1
             /\ (Calls({"create"}, "csrs")' \cup Calls({"approve"}, "csrs")' # {}) =>
                   /\ last'.requeue = RequeueCert
                   /\ Publishes(u)' = {}
             /\ (/\ last'.err = NoErr
                 /\ CfgSecrets(u) = {}
                 /\ \E csr \in csrs : csr.label = u /\ csr.approved /\ csr.certificate = <<>>) =>
                   /\ last'.requeue = RequeueCert
                   /\ Publishes(u)' = {}
                   /\ csrs' = csrs]_vars

\* a pass has found the request approved and unsigned and has only asked
\* for the requeue
C28_Witness ==
    /\ PassOf(Alice, "normal")
    /\ last.requeue = RequeueCert
    /\ Calls({"create", "approve"}, "csrs") = {}
    /\ \E csr \in csrs : csr.label = Alice /\ csr.approved /\ csr.certificate = <<>>

\* C29: Transition time is preserved. A pass that finds the Ready condition
\* and leaves it with the status value it had leaves its last-transition time
\* as it was.
C29_TransitionTimePreserved ==
    [][\A u \in Identities :
         (last'.u = u /\ last'.kind = "normal" /\ Exists(u) /\ Exists(u)') =>
             \A i \in ReadyConditions(u) \cap ReadyConditions(u)' :
                 StoredUser(u)'.status.conditions[i].status
                     = StoredUser(u).status.conditions[i].status =>
                 StoredUser(u)'.status.conditions[i].lastTransitionTime
                     = StoredUser(u).status.conditions[i].lastTransitionTime]_vars

\* the message for rc desired namespace roles and cc desired cluster roles
CountMessage(rc, cc) ==
    CASE rc = 0 /\ cc = 0 -> <<"User has no assigned roles">>
      [] rc > 0 /\ cc = 0 -> <<"User provisioned with", rc, "namespace role(s)">>
      [] rc = 0 /\ cc > 0 -> <<"User provisioned with", cc, "cluster role(s)">>
      [] OTHER -> <<"User provisioned with", rc, "namespace role(s) and", cc, "cluster role(s)">>

Bindings(kind) == IF kind = "rbs" THEN rbs ELSE crbs
DesiredKeys(username, kind) ==
    IF kind = "rbs" THEN Range(StoredSpec(username).roles)
    ELSE Range(ClusterRoleKeys(StoredSpec(username).clusterRoles))
DesiredName(username, kind, key) ==
    IF kind = "rbs" THEN username \o key.existingRole \o <<"rb">>
    ELSE username \o key.existingRole \o <<"crb">>

\* the labelled bindings of username under a key
Matched(username, kind, key) ==
    {b \in Bindings(kind) : b.label = username /\ b.ns = key.namespace
                            /\ b.roleRef.name = key.existingRole}

\* the narrow test: the role reference, and one subject (User, username)
Narrow(b, username, kind, key) ==
    /\ b.roleRef = [kind |-> IF kind = "rbs" THEN "Role" ELSE "ClusterRole",
                    name |-> key.existingRole]
    /\ b.subjects = <<[kind |-> "User", name |-> username]>>

\* C31: Narrow update test. In a pass, a binding under a desired key is
\* updated only if a labelled binding under that key fails the narrow test,
\* and is updated if the pass succeeds and all of them fail it; when all of
\* them pass it, whatever their owner reference, no call writes them or the
\* desired name and they stay as they are; and no call deletes a binding
\* under a desired key.
C31_NarrowUpdateTest ==
    [][\A u \in Identities :
         (last'.u = u /\ last'.kind = "normal") =>
             \A kind \in {"rbs", "crbs"} :
                 /\ \A key \in DesiredKeys(u, kind) :
                       /\ (\E i \in Calls({"update"}, kind)' :
                              /\ last'.log[i].name = DesiredName(u, kind, key)
                              /\ last'.log[i].ns = key.namespace) =>
                             \E b \in Matched(u, kind, key) : ~Narrow(b, u, kind, key)
                       /\ (/\ last'.err = NoErr
                           /\ Matched(u, kind, key) # {}
                           /\ \A b \in Matched(u, kind, key) : ~Narrow(b, u, kind, key)) =>
                             \E i \in Wrote({"update"}, kind)' :
                                 /\ last'.log[i].name = DesiredName(u, kind, key)
                                 /\ last'.log[i].ns = key.namespace
                       /\ (/\ Matched(u, kind, key) # {}
                           /\ \A b \in Matched(u, kind, key) : Narrow(b, u, kind, key)) =>
                             /\ \A b \in Matched(u, kind, key) : b \in Bindings(kind)'
                             /\ \A i \in 1..Len(last'.log) :
                                   (last'.log[i].kind = kind /\ last'.log[i].ns = key.namespace) =>
                                       /\ last'.log[i].name # DesiredName(u, kind, key)
                                       /\ \A b \in Matched(u, kind, key) :
                                              last'.log[i].name # b.name
                 /\ \A i \in Calls({"delete"}, kind)' :
                       \A key \in DesiredKeys(u, kind) :
                           \A b \in Matched(u, kind, key) :
                               ~(last'.log[i].name = b.name /\ last'.log[i].ns = b.ns)]_vars

\* a pass has succeeded and written no RoleBinding while the binding under
\* its desired key has another name and no owner reference
C31_Witness ==
    /\ PassOf(Alice, "normal")
    /\ last.err = NoErr
    /\ LegacyRB(Alice) \in rbs
    /\ DevDeveloper \in DesiredKeys(Alice, "rbs")
    /\ Calls({"create", "update", "delete"}, "rbs") = {}

\* C32: Binding shape. After a pass whose binding reconciliation returned
\* without error, every binding with the owner label of the User has the one
\* subject (User, username) and references a desired role under its own
\* kind, and every binding the pass created has the name derived from the
\* username and the role.
C32_BindingShape ==
    \A u \in Identities :
        (PassOf(u, "normal") /\ last.err = NoErr /\ Exists(u)) =>
            \A kind \in {"rbs", "crbs"} :
                /\ \A b \in Bindings(kind) :
                      b.label = u =>
                          \E key \in DesiredKeys(u, kind) :
                              /\ b.ns = key.namespace
                              /\ Narrow(b, u, kind, key)
                /\ \A i \in Wrote({"create"}, kind) :
                      \E key \in DesiredKeys(u, kind) :
                          /\ last.log[i].ns = key.namespace
                          /\ last.log[i].name = DesiredName(u, kind, key)

\* C33: Error phase is not sticky. A pass that starts with the stored phase
\* Error and whose binding reconciliation succeeds leaves the stored phase
\* Active or Expired.
C33_ErrorNotSticky ==
    [][\A u \in Identities :
         (/\ Exists(u)
          /\ StoredUser(u).status.phase = PhaseError
          /\ last'.u = u /\ last'.kind = "normal" /\ last'.err = NoErr) =>
             /\ Exists(u)'
             /\ StoredUser(u)'.status.phase \in {PhaseActive, PhaseExpired}]_vars

\* a later pass of a User whose desired state was never edited has created a
\* RoleBinding and left phase Active: the passes before it failed on the
\* Role that was missing
C33_Witness ==
    /\ PassOf(Alice, "normal")
    /\ last.err = NoErr
    /\ Exists(Alice)
    /\ StoredUser(Alice).status.phase = PhaseActive
    /\ budget.edits = MaxEdits
    /\ Calls({"update"}, "users") = {}
    /\ Wrote({"create"}, "rbs") # {}

\* C34: Expiry comes from the certificate. In a pass, the call that publishes
\* the kubeconfig secret comes right after a status update that succeeded,
\* and leaves the stored expiry at the validity end of the certificate the
\* secret embeds; and whenever the kubeconfig secret of a User exists, the
\* stored expiry is the validity end of the embedded certificate.
C34_ExpiryFromCertificate ==
    /\ [](\A u \in Identities :
              (Exists(u) /\ CfgSecrets(u) # {}) =>
                  StoredUser(u).status.expiryTime = <<EmbeddedExpiry(u)>>)
    /\ [][\A u \in Identities :
            (last'.u = u /\ last'.kind = "normal") =>
                \A i \in Publishes(u)' :
                    \E j \in 1..(i - 1) :
                        /\ last'.log[j].verb = "status"
                        /\ last'.log[j].kind = "users"
                        /\ last'.log[j].err = ""
                        /\ \A k \in (j + 1)..(i - 1) : k \in Publishes(u)'
                        /\ CfgSecrets(u)' # {} =>
                              StoredUser(u)'.status.expiryTime = <<EmbeddedExpiry(u)'>>]_vars

\* a pass has published the kubeconfig secret and the stored expiry is the
\* validity end of the certificate in it
C34_Witness ==
    /\ PassOf(Alice, "normal")
    /\ Wrote({"create"}, "secrets") \cap Publishes(Alice) # {}
    /\ Exists(Alice)
    /\ CfgSecrets(Alice) # {}
    /\ StoredUser(Alice).status.expiryTime = <<EmbeddedExpiry(Alice)>>

\* C35: Phase reflects bindings before credentials. In a pass whose binding
\* reconciliation succeeds, a status update that succeeds comes after the
\* last call on a binding and before the first call on a secret or a signing
\* request; and when the pass leaves the credential unpublished, whether it
\* ends with the requeue of a credential step or of a credential error, it
\* leaves the stored phase as projected: Expired when the expiry observed at
\* its start is past, and Active otherwise.
C35_PhaseBeforeCredentials ==
    [][\A u \in Identities :
         (last'.u = u /\ last'.kind = "normal" /\ last'.err = NoErr) =>
             /\ \A i \in 1..Len(last'.log) :
                   last'.log[i].kind \in {"secrets", "csrs"} =>
                       \E j \in 1..(i - 1) :
                           /\ last'.log[j].verb = "status"
                           /\ last'.log[j].kind = "users"
                           /\ last'.log[j].err = ""
                           /\ \A k \in 1..Len(last'.log) :
                                 last'.log[k].kind \in {"rbs", "crbs"} => k < j
             /\ Stage(u)' < 5 =>
                   StoredUser(u)'.status.phase
                       = IF ObservedExpired(u) THEN PhaseExpired ELSE PhaseActive]_vars

\* a first pass has created bindings, submitted the signing request and
\* ended with the 3s requeue, and the stored phase is Active
C35_Witness ==
    /\ PassOf(Alice, "normal")
    /\ last.err = NoErr
    /\ last.requeue = RequeueCert
    /\ Wrote({"create"}, "rbs") # {}
    /\ Wrote({"create"}, "csrs") # {}
    /\ Stage(Alice) = 2
    /\ StoredUser(Alice).status.phase = PhaseActive

\* the value of a line of the kubeconfig published for username
Embedded(username, field) ==
    LET config == TheOne(CfgSecrets(username)).data.config
        hits == {i \in 1..Len(config) : config[i][1] = field}
    IN  config[CHOOSE i \in hits : \A j \in hits : i <= j][2]

\* the request derived from the key in the key secret of username
OwnRequest(username) ==
    Pem(<<"csr", [subject |-> username,
                  key |-> TheOne(KeySecrets(username)).data.keypem[2][2]]>>)

\* C36: Only the controller's own request is approved. A pass approves the
\* signing request of a User only if its payload is the request derived from
\* the User's stored private key with the User as subject, and a kubeconfig
\* it publishes embeds a certificate issued for that key and subject.
C36_OwnRequestOnly ==
    [][\A u \in Identities :
         (last'.u = u /\ last'.kind = "normal") =>
             /\ Wrote({"approve"}, "csrs")' # {} =>
                   \A csr \in Find(csrs', <<>>, csrName(u)) :
                       /\ KeySecrets(u)' # {}
                       /\ csr.request = OwnRequest(u)'
             /\ (Wrote({"create", "update"}, "secrets")' \cap Publishes(u)' # {}) =>
                   /\ Certificate(Embedded(u, "client-certificate-data")').subject = u
                   /\ Certificate(Embedded(u, "client-certificate-data")').key
                          = TheOne(KeySecrets(u)').data.keypem[2][2]]_vars

\* C37: Key and certificate stay matched. After a pass that returns no
\* error, a kubeconfig secret of the User embeds the private key that the key
\* secret holds and a certificate issued to the User for that key.
C37_KeyCertificateMatched ==
    \A u \in Identities :
        (PassOf(u, "normal") /\ last.err = NoErr /\ CfgSecrets(u) # {}) =>
            /\ KeySecrets(u) # {}
            /\ Embedded(u, "client-key-data") = B64(TheOne(KeySecrets(u)).data.keypem)
            /\ Certificate(Embedded(u, "client-certificate-data")).subject = u
            /\ Certificate(Embedded(u, "client-certificate-data")).key
                   = TheOne(KeySecrets(u)).data.keypem[2][2]

\* what the rotation check reads as the expiry of the published certificate
RotationView(username) ==
    extractCertificateExpiryWithFormatDetection(Embedded(username, "client-certificate-data"))

\* C38: Publish/rotation-check round trip. Whenever the kubeconfig secret of
\* a User exists, the rotation check's extraction from its
\* client-certificate-data succeeds and yields the expiry stored at publish
\* time, and a pass that leaves the secret in place does not end with the
\* requeue of a credential error.
C38_PublishRotationRoundTrip ==
    \A u \in Identities :
        (Exists(u) /\ CfgSecrets(u) # {}) =>
            /\ RotationView(u).ok
            /\ StoredUser(u).status.expiryTime = <<RotationView(u).t>>
            /\ (PassOf(u, "normal") /\ last.err = NoErr) => last.requeue # RequeueCertError

\* the last step was a pass that published the kubeconfig secret of username
Published(username) ==
    /\ PassOf(username, "normal")
    /\ Wrote({"create", "update"}, "secrets") \cap Publishes(username) # {}

\* C39: A fresh credential is stable. The pass that comes right after the
\* pass that published the kubeconfig secret of a User deletes neither that
\* secret nor the signing request, and leaves the secret as published.
C39_FreshCredentialStable ==
    [][\A u \in Identities :
         (Published(u) /\ last'.u = u /\ last'.kind = "normal") =>
             /\ Calls({"delete"}, "secrets")' = {}
             /\ Calls({"delete"}, "csrs")' = {}
             /\ CfgSecrets(u)' = CfgSecrets(u)]_vars

\* C40: Binding names do not collide across identities. With two Users
\* whose desired Roles are in one namespace and whose ClusterRoles exist,
\* every pass of either succeeds in whatever order the passes run, and leaves
\* for each desired role a binding of its own under the derived name.
C40_NoNameCollision ==
    \A u \in Pair :
        PassOf(u, "normal") =>
            /\ last.err = NoErr
            /\ \A kind \in {"rbs", "crbs"} :
                  \A key \in DesiredKeys(u, kind) :
                      \E b \in Bindings(kind) :
                          /\ b.label = u
                          /\ b.ns = key.namespace
                          /\ b.name = DesiredName(u, kind, key)

====
